---- MODULE Spec2Model ----
(***************************************************************************)
(* A model of the Remix starter kit's procedural parts: the database       *)
(* schema and its drizzle migration history, the pull-request drift check, *)
(* the GitHub Actions workflows (pr-checks, staging-deploy, release-please *)
(* and production-deploy) and the container registry they write to.        *)
(*                                                                         *)
(* The module holds several specifications over one set of variables; each *)
(* specification moves the variables of one part and leaves the others as  *)
(* Init set them:                                                          *)
(*   SpecDrift    schema edits, db:generate, commits, the PR drift check   *)
(*   SpecJobs     one run of one workflow: its jobs and their steps        *)
(*   SpecVersion  pushes to main, Release Please, the Release PR, releases  *)
(*   SpecRelease  the same with the staging and production runs and the    *)
(*                registry: image promotion                                *)
(*   SpecConcurrency  workflow runs under their concurrency groups         *)
(*   SpecApp      containers running npm start against one database        *)
(*   SpecHistory  the migration history under hand edits and merges        *)
(*   SpecPromotion  SpecRelease with failed runs re-run by a person        *)
(*   SpecHealth   the container's HEALTHCHECK probes                       *)
(*   SpecRows     inserts, updates and deletes on users and items          *)
(*   SpecSignals  the container's processes and the signals sent to it,    *)
(*                with weak fairness of the processes' steps               *)
(*   SpecStagingRun  one staging-deploy run that may be cancelled          *)
(*   SpecLatest   overlapping staging-deploy runs pushing the tag latest   *)
(***************************************************************************)
EXTENDS Integers, Sequences, FiniteSets, TLC

VARIABLES
    work,        \* the developer's working tree: schema.ts and drizzle/
    head,        \* the tree committed at the pull request's head
    genLog,      \* what the last local `npm run db:generate` did
    prCheck,     \* the result of the Migration Check job for `head`
    wf,          \* the workflow of the run under way
    findings,    \* the vulnerabilities the scanned code or image has
    jobState,    \* job -> queued, running, success, failure or skipped
    stepLog,     \* job -> what each step reached so far did
    sarif,       \* whether the scan wrote trivy-results.sarif
    main,        \* the commits on main, oldest first: each one's kind
    version,     \* the version of the last published release
    releasePR,   \* the Release PR Release Please keeps open, if any
    pendingTag,  \* a merged Release PR whose release is not yet created
    rpPending,   \* release-please.yml runs triggered and not yet run
    releases,    \* the GitHub Releases published, oldest first
    stagingRun,  \* the newest staging-deploy.yml run: commit, job results
    registry,    \* GHCR: what latest, the sha tags and version tags name
    staged,      \* the commits whose image the staging deploy job deployed
    prod,        \* per release, its production-deploy.yml run's job results
    runs,        \* the workflow runs triggered so far, oldest first
    database,    \* the application's database: migrations applied, columns
    containers,  \* container -> its image and where its `npm start` stands
    toolLocks,   \* whether the migration tool serialises concurrent runs
    overlapped,  \* whether two migration runs were ever under way together
    base,        \* the tree of the last pull request merged
    tampered,    \* whether a migration file was edited or deleted by hand
    reruns,      \* how many times a person re-ran a failed run
    lastFailure, \* the last production job that failed, and how
    health,      \* the container's health status and failing streak
    probes,      \* the outcomes of the health probes so far
    userRows,    \* the rows of table users, in the order stored
    itemRows,    \* the rows of table items, in the order stored
    usersIdSeq,  \* the last value of the sequence users_id_seq
    lastResult,  \* what the database answered to the last statement
    procs,       \* the container's processes: not started, running, exited
    pending,     \* process -> the signals sent to it and not yet handled
    sent         \* how many signals were sent to the container

driftVars == <<work, head, genLog, prCheck>>
runVars == <<wf, findings, jobState, stepLog, sarif>>
relVars == <<main, version, releasePR, pendingTag, rpPending, releases,
             stagingRun, registry, staged, prod>>

ciVars == <<runs>>
appVars == <<database, containers, toolLocks, overlapped>>
histVars == <<base, tampered>>
promoVars == <<reruns, lastFailure>>
healthVars == <<health, probes>>
rowVars == <<userRows, itemRows, usersIdSeq, lastResult>>
sigVars == <<procs, pending, sent>>

\* The parts next to the drift, run and release parts.
otherVars == <<ciVars, appVars, histVars, promoVars, healthVars, rowVars,
               sigVars>>

vars == <<driftVars, runVars, relVars, otherVars>>

\* What the actions of one part leave alone.
notDrift == <<runVars, relVars, otherVars>>
notRun == <<driftVars, relVars, otherVars>>
notRel == <<driftVars, runVars, otherVars>>
notCi == <<driftVars, runVars, relVars,
           appVars, histVars, promoVars, healthVars, rowVars, sigVars>>
notApp == <<driftVars, runVars, relVars,
            ciVars, histVars, promoVars, healthVars, rowVars, sigVars>>
notHist == <<runVars, relVars,
             ciVars, appVars, promoVars, healthVars, rowVars, sigVars>>
notPromo == <<driftVars, runVars,
              ciVars, appVars, histVars, healthVars, rowVars, sigVars>>
notHealth == <<driftVars, runVars, relVars,
               ciVars, appVars, histVars, promoVars, rowVars, sigVars>>
notRows == <<driftVars, runVars, relVars,
             ciVars, appVars, histVars, promoVars, healthVars, sigVars>>
notSig == <<driftVars, runVars, relVars,
            ciVars, appVars, histVars, promoVars, healthVars, rowVars>>

----------------------------------------------------------------------------
(* Bounds *)

\* How many columns a developer may add to the declared schema.
MaxExtraCols == 2
\* How many migrations are generated locally on top of the initial one.
MaxMigrations == 2
\* How many times in a row the generation step is re-run when checking
\* that a re-run changes nothing.
MaxGenRuns == 2
\* How many commits are pushed to main (Release PR merges not counted).
MaxCommits == 3
\* How many commits are pushed to main in the promotion runs, where the
\* staging and production runs interleave with them.
MaxPushes == 1
\* How many workflow runs are triggered when runs of one workflow overlap.
MaxRuns == 3
\* How many steps a run takes before it completes, where only the run's
\* being in progress matters.
RunSteps == 2
\* How many containers share the database, and how many container starts
\* there are in all.
MaxContainers == 2
MaxStarts == 3
\* How many times a person re-runs a failed run.
MaxReruns == 1
\* How many health probes of one container are followed.
MaxProbes == 4
\* How many rows a table is let to hold, and how many values the sequence
\* of users.id gives out.
MaxRows == 3
MaxSeq == 2
\* How many signals are sent to one container.
MaxSignals == 2

----------------------------------------------------------------------------
(* The release part as the repository stands: version 1.0.0 is released,  *)
(* its commit (commit 0) is built, pushed as latest and deployed to        *)
(* staging, and nothing is pending.                                        *)

\* CHANGELOG.md: the first release.
InitialVersion == <<1, 0, 0>>

NoPR == [open |-> FALSE, version |-> <<0, 0, 0>>, at |-> 0]

StagingJobs == {"build", "scan", "deploy"}
ProductionJobs == {"promote-image", "deploy-production"}

RelStart ==
    /\ main = << >>
    /\ version = InitialVersion
    /\ releasePR = NoPR
    /\ pendingTag = NoPR
    /\ rpPending = 0
    /\ releases = << >>
    /\ stagingRun = [commit |-> 0, st |-> [j \in StagingJobs |-> "success"]]
    /\ registry = [latest |-> 0, sha |-> {0}, ver |-> {}]
    /\ staged = {0}
    /\ prod = << >>

----------------------------------------------------------------------------
(* Schema: app/lib/db/schema.ts *)

\* A column is <<table, column, n>>; n tells the added columns apart and is 0
\* for the declared ones.
items == { <<"items", "name", 0>> }

users == { <<"users", "id", 0>>, <<"users", "email", 0>>,
           <<"users", "name", 0>>, <<"users", "created_at", 0>> }

DeclaredSchema == items \cup users

ExtraCols == { <<"users", "extra", n>> : n \in 1..MaxExtraCols }

----------------------------------------------------------------------------
(* The migration directory drizzle/ and `npm run db:generate` *)

\* The schema recorded by the newest snapshot, drizzle/meta/NNNN_snapshot.json;
\* the empty schema when nothing was generated yet.
LastSnapshot(t) ==
    IF t.snapshots = << >> THEN {} ELSE t.snapshots[Len(t.snapshots)]

\* One generated file drizzle/NNNN_<name>.sql: the statements that take the
\* previous snapshot to the schema.
MigrationFile(idx, prev, schema) ==
    [idx |-> idx, add |-> schema \ prev, drop |-> prev \ schema]

\* A migration file the journal lists and drizzle/ no longer holds.
MissingFile == [idx |-> -1, add |-> {}, drop |-> {}]

\* As WriteMigration, with the change squashed into the newest migration
\* file instead of written to a new one.
WriteMigrationSquash(t) ==
    [t EXCEPT
        !.sql = IF @ = << >>
                THEN << MigrationFile(0, LastSnapshot(t), t.schema) >>
                ELSE [@ EXCEPT ![Len(@)] =
                        MigrationFile(Len(t.sql) - 1, {}, t.schema)],
        !.snapshots = Append(@, t.schema),
        !.journal = Append(@, Len(t.journal))]

\* As WriteMigration, with the .sql file left out: only the snapshot and the
\* journal are written.
WriteSnapshotOnly(t) ==
    [t EXCEPT
        !.snapshots = Append(@, t.schema),
        !.journal = Append(@, Len(t.journal))]

\* The tree with the schema's pending changes written out as the next
\* migration, snapshot and journal entry.
WriteMigration(t) ==
    [t EXCEPT
        !.sql = Append(@, MigrationFile(Len(t.sql), LastSnapshot(t), t.schema)),
        !.snapshots = Append(@, t.schema),
        !.journal = Append(@, Len(t.journal))]

\* As Generate, without the comparison: a migration is written on every run.
GenerateAlways(t) == WriteMigration(t)

\* `drizzle-kit generate`: compares the schema with the newest snapshot and
\* writes one migration for the difference, or nothing when there is none.
Generate(t) ==
    IF t.schema = LastSnapshot(t) THEN t ELSE WriteMigration(t)

RECURSIVE GenerateTimes(_, _)
GenerateTimes(t, n) ==
    IF n = 0 THEN t ELSE GenerateTimes(Generate(t), n - 1)

\* The tree a fresh clone of the repository holds: the declared schema and
\* the initial migration 0000 generated from it.
InitialTree ==
    Generate([schema |-> DeclaredSchema, sql |-> << >>,
              snapshots |-> << >>, journal |-> << >>])

----------------------------------------------------------------------------
(* pr-checks.yml, job `migrations` *)

\* `git status --porcelain drizzle/` of a tree against the commit it was
\* checked out from: untracked (??), modified (M) and deleted (D) paths.
FileStatus(kind, committed, tree) ==
    { <<"??", kind, i>> : i \in (Len(committed) + 1)..Len(tree) }
    \cup { <<"M", kind, i>> :
             i \in { j \in 1..Len(committed) :
                        j <= Len(tree) /\ committed[j] # tree[j] } }
    \cup { <<"D", kind, i>> : i \in (Len(tree) + 1)..Len(committed) }

GitStatusPorcelain(committed, tree) ==
    FileStatus("sql", committed.sql, tree.sql)
    \cup FileStatus("snapshot", committed.snapshots, tree.snapshots)
    \cup (IF committed.journal # tree.journal
          THEN { <<"M", "journal", 0>> } ELSE {})

\* As DriftCheck, with the `exit 1` missing: the drift is printed only.
DriftCheckNoExit(commit) ==
    [exit |-> 0, files |-> GitStatusPorcelain(commit, Generate(commit))]

\* Step "Check for migration drift": generate, then exit 1 when git reports
\* anything under drizzle/.
DriftCheck(commit) ==
    LET status == GitStatusPorcelain(commit, Generate(commit))
    IN  [exit |-> IF status # {} THEN 1 ELSE 0, files |-> status]

\* `drizzle-kit migrate` on the job's fresh database: the migration files in
\* journal order; a file the journal lists and the directory lacks, or a
\* statement on a column that exists already or that does not exist, is an
\* error.
RECURSIVE ApplyFrom(_, _, _)
ApplyFrom(sql, i, db) ==
    IF i > Len(sql) THEN [ok |-> TRUE, db |-> db]
    ELSE IF \/ sql[i] = MissingFile
            \/ sql[i].add \cap db # {}
            \/ ~(sql[i].drop \subseteq db)
         THEN [ok |-> FALSE, db |-> db]
         ELSE ApplyFrom(sql, i + 1, (db \ sql[i].drop) \cup sql[i].add)

Migrate(tree) == ApplyFrom(tree.sql, 1, {})

\* The job: the drift check, then "Test migrations apply cleanly" unless the
\* drift check failed. The runner works on its own checkout of the commit:
\* nothing it generates is committed.
MigrationsJob(commit) ==
    LET drift == DriftCheck(commit)
        tree == Generate(commit)
        migrate == IF drift.exit # 0 THEN "skipped"
                   ELSE IF Migrate(tree).ok THEN "ok" ELSE "error"
    IN  [status |-> IF drift.exit = 0 /\ migrate = "ok"
                    THEN "success" ELSE "failure",
         drift |-> drift.files,
         migrate |-> migrate]

NoCheck == [status |-> "none", drift |-> {}, migrate |-> "skipped"]

----------------------------------------------------------------------------
(* The developer's steps of the migration workflow, and the PR check *)

NoGen == [ran |-> FALSE, pending |-> FALSE, newFiles |-> 0, changed |-> FALSE]

\* The migration part as a fresh clone has it.
DriftStart ==
    /\ work = InitialTree
    /\ head = InitialTree
    /\ genLog = NoGen
    /\ prCheck = NoCheck

\* No workflow run was triggered yet.
CiStart == runs = << >>

\* An empty database and no container; the migration tool takes no lock.
AppStart ==
    /\ database = [applied |-> << >>, cols |-> {}]
    /\ containers = << >>
    /\ toolLocks = FALSE
    /\ overlapped = FALSE

\* Nothing merged beyond the tree of the clone.
HistStart ==
    /\ base = InitialTree
    /\ tampered = FALSE

NoFailure == [release |-> 0, job |-> "none", env |-> "ok"]

\* Nothing failed and nothing was re-run.
PromoStart ==
    /\ reruns = 0
    /\ lastFailure = NoFailure

\* The container runs and no probe has run yet.
HealthStart ==
    /\ health = [status |-> "starting", failingStreak |-> 0]
    /\ probes = << >>

\* Empty tables.
NoStatement ==
    [op |-> "none", table |-> "none", at |-> 0, new |-> [none |-> "none"],
     result |-> "ok"]

RowStart ==
    /\ userRows = << >>
    /\ itemRows = << >>
    /\ usersIdSeq = 0
    /\ lastResult = NoStatement

\* The processes of the container, from PID 1 down: the init wrapper, npm,
\* the prestart script and the start script (the web server).
Processes == {"dumb-init", "npm", "prestart", "server"}

\* The container is started: dumb-init runs as PID 1 and nothing else yet.
SigStart ==
    /\ procs = [p \in Processes |->
                  IF p = "dumb-init" THEN "running" ELSE "none"]
    /\ pending = [p \in Processes |-> {}]
    /\ sent = 0

\* The other parts as they start.
OtherStart ==
    /\ CiStart /\ AppStart /\ HistStart /\ PromoStart /\ HealthStart
    /\ RowStart /\ SigStart

\* No workflow run under way.
RunIdle ==
    /\ wf = "none"
    /\ findings = {}
    /\ jobState = << >>
    /\ stepLog = << >>
    /\ sarif = FALSE

InitDrift == DriftStart /\ RunIdle /\ RelStart /\ OtherStart

\* Edit app/lib/db/schema.ts: declare one more column.
EditSchemaAdd(c) ==
    /\ c \notin work.schema
    /\ work' = [work EXCEPT !.schema = @ \cup {c}]
    /\ UNCHANGED <<head, genLog, prCheck, notDrift>>

\* Edit app/lib/db/schema.ts: remove an added column.
EditSchemaDrop(c) ==
    /\ c \in work.schema
    /\ work' = [work EXCEPT !.schema = @ \ {c}]
    /\ UNCHANGED <<head, genLog, prCheck, notDrift>>

\* `npm run db:generate` in the working tree.
DevGenerate ==
    /\ work.schema # LastSnapshot(work) => Len(work.sql) < 1 + MaxMigrations
    /\ work' = Generate(work)
    /\ genLog' = [ran |-> TRUE,
                  pending |-> work.schema # LastSnapshot(work),
                  newFiles |-> Len(work'.sql) - Len(work.sql),
                  changed |-> work' # work]
    /\ UNCHANGED <<head, prCheck, notDrift>>

\* Commit the schema change and the migration files together.
CommitAll ==
    /\ head # work
    /\ head' = work
    /\ prCheck' = NoCheck
    /\ UNCHANGED <<work, genLog, notDrift>>

\* Commit the schema change alone, the migration forgotten.
CommitSchemaOnly ==
    /\ head.schema # work.schema
    /\ head' = [head EXCEPT !.schema = work.schema]
    /\ prCheck' = NoCheck
    /\ UNCHANGED <<work, genLog, notDrift>>

\* `git add drizzle/` and commit: the migration files alone.
CommitMigrations ==
    /\ head # [work EXCEPT !.schema = head.schema]
    /\ head' = [work EXCEPT !.schema = head.schema]
    /\ prCheck' = NoCheck
    /\ UNCHANGED <<work, genLog, notDrift>>

\* As PrMigrationCheck, with the job committing what it generated to the
\* pull request.
PrMigrationCheckAutoFix ==
    /\ prCheck' = MigrationsJob(head)
    /\ head' = Generate(head)
    /\ UNCHANGED <<work, genLog, notDrift>>

\* The Migration Check job runs (or is re-run) on the pull request's head.
PrMigrationCheck ==
    /\ prCheck' = MigrationsJob(head)
    /\ UNCHANGED <<work, head, genLog, notDrift>>

NextDrift ==
    \/ \E c \in ExtraCols : EditSchemaAdd(c)
    \/ \E c \in ExtraCols : EditSchemaDrop(c)
    \/ DevGenerate
    \/ CommitAll
    \/ CommitSchemaOnly
    \/ CommitMigrations
    \/ PrMigrationCheck

SpecDrift == InitDrift /\ [][NextDrift]_vars

----------------------------------------------------------------------------
(* The drift check and the generation step: C1, C2, C3 *)

\* The drift step of the recorded job failed / passed.
DriftFailed == prCheck.status = "failure" /\ prCheck.migrate = "skipped"
DriftPassed == prCheck.status # "none" /\ prCheck.migrate # "skipped"

\* The tree's schema is its newest snapshot plus one added column.
AddedColumn(t) ==
    \E c \in ExtraCols :
        c \notin LastSnapshot(t) /\ t.schema = LastSnapshot(t) \cup {c}

NewSqlFiles(files) == { f \in files : f[1] = "??" /\ f[2] = "sql" }

\* C1: the PR drift check fails if and only if re-running the generation
\* leaves new or modified uncommitted content under drizzle/, and it passes
\* exactly when the schema has not changed since the last committed
\* migration (the committed schema is the newest committed snapshot).
C1_DriftVerdict ==
    prCheck.status # "none" =>
        /\ DriftFailed <=> GitStatusPorcelain(head, Generate(head)) # {}
        /\ DriftPassed <=> head.schema = LastSnapshot(head)
        /\ DriftFailed <=> ~DriftPassed

\* C1 witness: the check failed on a commit whose schema differs from its
\* newest snapshot while an earlier generated migration is committed.
C1_Witness ==
    /\ DriftFailed
    /\ head.schema # LastSnapshot(head)
    /\ Len(head.sql) > 1

\* C2: for a tree with no pending schema change, running the generation any
\* number of times writes no migration file and leaves drizzle/ (files,
\* snapshots and journal) as it was; a second run after any run is a no-op.
C2_GenerateIdempotent ==
    /\ \A t \in {work, head} : \A n \in 1..MaxGenRuns :
          /\ t.schema = LastSnapshot(t) => GenerateTimes(t, n) = t
          /\ GenerateTimes(Generate(t), n) = Generate(t)
    /\ genLog.ran /\ ~genLog.pending =>
          genLog.newFiles = 0 /\ ~genLog.changed

\* C2 witness: db:generate was run with nothing pending, after a migration
\* had been generated.
C2_Witness ==
    /\ genLog.ran /\ ~genLog.pending
    /\ Len(work.sql) > 1
    /\ work.schema = LastSnapshot(work)

\* C3: for a schema with an added column the generation writes exactly one
\* new migration file, and the drift check of that tree, before the
\* migration is generated and committed, fails naming that one file.
C3_AddedColumn ==
    /\ \A t \in {work, head} :
          AddedColumn(t) =>
              /\ Len(Generate(t).sql) = Len(t.sql) + 1
              /\ DriftCheck(t).exit = 1
              /\ Cardinality(NewSqlFiles(DriftCheck(t).files)) = 1
    /\ genLog.ran /\ genLog.pending => genLog.newFiles = 1
    /\ prCheck.status # "none" /\ AddedColumn(head) =>
          DriftFailed /\ Cardinality(NewSqlFiles(prCheck.drift)) = 1

\* C3 witness: the check failed on the commit with the added column, and the
\* developer's generation then wrote one file.
C3_Witness ==
    /\ AddedColumn(head)
    /\ DriftFailed
    /\ genLog.ran /\ genLog.pending /\ genLog.newFiles = 1
    /\ Len(work.sql) = Len(head.sql) + 1

----------------------------------------------------------------------------
(* The workflow files: jobs, their needs and conditions, their steps *)

Workflows ==
    {"pr-checks", "staging-deploy", "release-please", "production-deploy"}

Jobs(w) ==
    CASE w = "pr-checks" -> {"lint", "migrations", "security"}
      [] w = "staging-deploy" -> {"build", "scan", "deploy", "summary"}
      [] w = "release-please" -> {"release-please"}
      [] w = "production-deploy" -> {"promote-image", "deploy-production"}
      [] OTHER -> {}

\* As Needs, with the deploy jobs' `needs:` lines missing.
NeedsNoGate(job) ==
    CASE job = "scan" -> {"build"}
      [] job = "summary" -> {"build", "scan", "deploy"}
      [] OTHER -> {}

\* `needs:` of each job.
Needs(job) ==
    CASE job = "scan" -> {"build"}
      [] job = "deploy" -> {"build", "scan"}
      [] job = "summary" -> {"build", "scan", "deploy"}
      [] job = "deploy-production" -> {"promote-image"}
      [] OTHER -> {}

\* As JobIf, with the summary job's `if: always()` missing.
JobIfDefault(job) == "success"

\* The job's `if:`; success() is the default of a job that states none.
JobIf(job) == IF job = "summary" THEN "always" ELSE "success"

\* A step: its condition (success() by default), whether its command ends in
\* `|| true`, and the tool it runs.
Step(name, cond, swallow, tool) ==
    [name |-> name, cond |-> cond, swallow |-> swallow, tool |-> tool]

Run(name) == Step(name, "success", FALSE, "run")

Steps(job) ==
    CASE job = "lint" ->
            << Run("checkout"), Run("setup-node"), Run("npm ci"),
               Run("npm run lint"), Run("npm run typecheck") >>
      [] job = "migrations" ->
            << Run("checkout"), Run("setup-node"), Run("npm ci"),
               Run("check for migration drift"), Run("npm run db:migrate") >>
      [] job = "security" ->
            << Run("checkout"),
               Step("trivy", "success", FALSE, "trivy-fs") >>
      [] job = "build" ->
            << Run("checkout"), Run("image-name"), Run("setup-buildx"),
               Run("login"), Run("meta"), Run("build-push"),
               Step("make package public", "success", TRUE, "run") >>
      [] job = "scan" ->
            << Run("login"),
               Step("trivy", "success", FALSE, "trivy-image"),
               Step("upload-sarif", "always", FALSE, "sarif") >>
      [] job = "deploy" ->
            << Run("deploy notification"), Run("update infra repo") >>
      [] job = "summary" -> << Run("generate summary") >>
      [] job = "release-please" -> << Run("release-please-action") >>
      [] job = "promote-image" ->
            << Run("image-name"), Run("version"), Run("login"),
               Run("pull, tag, push"), Run("generate summary") >>
      [] job = "deploy-production" ->
            << Run("deploy notification"), Run("update infra repo") >>
      [] OTHER -> << >>

----------------------------------------------------------------------------
(* The Trivy scans *)

Severities == {"LOW", "MEDIUM", "HIGH", "CRITICAL"}

\* A vulnerability: its severity and whether a fixed version exists.
Findings == [severity : Severities, fixed : BOOLEAN]

\* As TrivyFs, before `exit-code` was added to the step.
TrivyFsNoExitCode ==
    [severity |-> {"CRITICAL", "HIGH"}, ignoreUnfixed |-> TRUE,
     exitCode |-> 0]

\* pr-checks.yml, job security: the `with:` of the filesystem scan.
TrivyFs ==
    [severity |-> {"CRITICAL", "HIGH"}, ignoreUnfixed |-> TRUE,
     exitCode |-> 1]

\* staging-deploy.yml, job scan: the `with:` of the image scan
\* (ignore-unfixed is not set).
TrivyImage ==
    [severity |-> {"CRITICAL", "HIGH"}, ignoreUnfixed |-> FALSE,
     exitCode |-> 0]

\* The findings a scan reports under its configuration.
Reported(cfg, found) ==
    { f \in found : f.severity \in cfg.severity
                    /\ (cfg.ignoreUnfixed => f.fixed) }

\* The scanner's exit status: `exit-code` when it reports anything, else 0.
TrivyExit(cfg, found) ==
    IF Reported(cfg, found) # {} THEN cfg.exitCode ELSE 0

----------------------------------------------------------------------------
(* The runner: one run of one workflow *)

Finished == {"success", "failure", "skipped", "cancelled"}

\* What the environment does to a step's command: nothing ("ok"), fail it
\* before it wrote anything ("error": network, registry, tool crash) or fail
\* it after it wrote its output ("late-error").
Envs == {"ok", "error", "late-error"}

\* What a step's command does: "ok" (exit 0), "error" (it fails on its own;
\* env says so) or "findings" (the scanner's exit code for what it reports).
Command(step, env, found) ==
    IF env # "ok" THEN "error"
    ELSE IF step.tool = "trivy-fs" /\ TrivyExit(TrivyFs, found) # 0
         THEN "findings"
    ELSE IF step.tool = "trivy-image" /\ TrivyExit(TrivyImage, found) # 0
         THEN "findings"
    ELSE "ok"

\* As StepOutcome, with every command's failure ignored.
StepOutcomeLenient(step, cmd) == "success"

\* The step's conclusion: `|| true` turns a failed command into success.
StepOutcome(step, cmd) ==
    IF cmd = "ok" \/ step.swallow THEN "success" ELSE "failure"

Failed(log) == \E i \in 1..Len(log) : log[i].outcome = "failure"

\* Whether the runner runs the step: success() wants no failed step before
\* it; the SARIF upload runs always(), given the report file exists.
StepRuns(step, log, report) ==
    /\ step.cond = "success" => ~Failed(log)
    /\ step.tool = "sarif" => report

InitJobs ==
    /\ DriftStart
    /\ RelStart
    /\ OtherStart
    /\ wf \in Workflows
    /\ findings \in { {} } \cup { {f} : f \in Findings }
    /\ jobState = [j \in Jobs(wf) |-> "queued"]
    /\ stepLog = [j \in Jobs(wf) |-> << >>]
    /\ sarif = FALSE

NeedsDone(job) == \A n \in Needs(job) : jobState[n] \in Finished

NeedsOk(job) == \A n \in Needs(job) : jobState[n] = "success"

\* A queued job whose needs are finished starts, when they all succeeded or
\* the job runs always().
StartJob(job) ==
    /\ jobState[job] = "queued"
    /\ NeedsDone(job)
    /\ JobIf(job) = "always" \/ NeedsOk(job)
    /\ jobState' = [jobState EXCEPT ![job] = "running"]
    /\ UNCHANGED <<wf, findings, stepLog, sarif, notRun>>

\* A queued job one of whose needs did not succeed is skipped.
SkipJob(job) ==
    /\ jobState[job] = "queued"
    /\ NeedsDone(job)
    /\ ~(JobIf(job) = "always" \/ NeedsOk(job))
    /\ jobState' = [jobState EXCEPT ![job] = "skipped"]
    /\ UNCHANGED <<wf, findings, stepLog, sarif, notRun>>

\* The running job's next step: run, or skipped by its condition.
RunStep(job, env) ==
    /\ jobState[job] = "running"
    /\ Len(stepLog[job]) < Len(Steps(job))
    /\ LET step == Steps(job)[Len(stepLog[job]) + 1]
           cmd == Command(step, env, findings)
       IN  IF StepRuns(step, stepLog[job], sarif)
           THEN /\ stepLog' = [stepLog EXCEPT ![job] = Append(@,
                       [outcome |-> StepOutcome(step, cmd), cmd |-> cmd])]
                /\ sarif' = (sarif \/ (step.tool = "trivy-image"
                                        /\ env # "error"))
           ELSE /\ env = "ok"
                /\ stepLog' = [stepLog EXCEPT ![job] = Append(@,
                       [outcome |-> "skipped", cmd |-> "none"])]
                /\ sarif' = sarif
    /\ UNCHANGED <<wf, findings, jobState, notRun>>

\* After its last step the job concludes: failure when a step failed.
FinishJob(job) ==
    /\ jobState[job] = "running"
    /\ Len(stepLog[job]) = Len(Steps(job))
    /\ jobState' = [jobState EXCEPT ![job] =
                        IF Failed(stepLog[job]) THEN "failure" ELSE "success"]
    /\ UNCHANGED <<wf, findings, stepLog, sarif, notRun>>

NextJobs ==
    \/ \E job \in Jobs(wf) : StartJob(job)
    \/ \E job \in Jobs(wf) : SkipJob(job)
    \/ \E job \in Jobs(wf), env \in Envs : RunStep(job, env)
    \/ \E job \in Jobs(wf) : FinishJob(job)

SpecJobs == InitJobs /\ [][NextJobs]_vars

----------------------------------------------------------------------------
(* Scan findings and step failures: C9, C10 *)

\* The position of the Trivy step in the two scanning jobs.
TrivyAt == 2

ScanJobs == {"security", "scan"}

\* The scanner of the job ran to its end.
Scanned(job) ==
    /\ job \in Jobs(wf)
    /\ Len(stepLog[job]) >= TrivyAt
    /\ stepLog[job][TrivyAt].cmd \in {"ok", "findings"}

\* A finding at or above the configured threshold.
AtThreshold(found) == \E f \in found : f.severity \in {"CRITICAL", "HIGH"}

Ran(job) == jobState[job] \in {"running", "success", "failure"}

\* C9 as stated: in every pipeline that scans, a CRITICAL or HIGH finding
\* makes the scan step and job fail and no job that needs the scan job runs;
\* the staging deploy job never runs for an image with such a finding.
C9_FindingsHalt ==
    \A job \in ScanJobs :
        Scanned(job) /\ AtThreshold(findings) =>
            /\ stepLog[job][TrivyAt].outcome = "failure"
            /\ jobState[job] \in {"running", "failure"}
            /\ \A d \in Jobs(wf) : job \in Needs(d) => ~Ran(d)

\* C9 amended: only the PR filesystem scan fails on findings, and only on a
\* CRITICAL or HIGH finding that has a fix; the staging image scan (exit
\* code 0) never fails on findings, its job fails only when a step errors,
\* and the staging deploy job runs exactly after build and scan succeeded,
\* whatever the image's findings.
C9_ScanVerdicts ==
    /\ Scanned("security") =>
          /\ stepLog["security"][TrivyAt].outcome = "failure"
                <=> \E f \in findings :
                        f.severity \in {"CRITICAL", "HIGH"} /\ f.fixed
          /\ stepLog["security"][TrivyAt].outcome = "failure"
                => jobState["security"] \in {"running", "failure"}
    /\ Scanned("scan") =>
          /\ stepLog["scan"][TrivyAt].outcome = "success"
          /\ stepLog["scan"][TrivyAt].cmd = "ok"
    /\ wf = "staging-deploy" =>
          /\ jobState["scan"] = "failure" =>
                \E i \in 1..Len(stepLog["scan"]) :
                    stepLog["scan"][i].cmd = "error"
          /\ Ran("deploy") =>
                jobState["build"] = "success" /\ jobState["scan"] = "success"

\* C9 witness: the image has a CRITICAL finding with a fix, the scan ran and
\* the staging deploy job succeeded.
C9_Witness ==
    /\ Scanned("scan")
    /\ \E f \in findings : f.severity = "CRITICAL" /\ f.fixed
    /\ jobState["deploy"] = "success"

CmdFailed(entry) == entry.cmd \in {"error", "findings"}

\* C10 as stated: when any step's command fails, the step fails, no later
\* step of the job runs, the job is reported failed and no job that needs it
\* runs.
C10_EveryFailureFatal ==
    \A job \in Jobs(wf) : \A i \in 1..Len(stepLog[job]) :
        CmdFailed(stepLog[job][i]) =>
            /\ stepLog[job][i].outcome = "failure"
            /\ \A k \in (i + 1)..Len(stepLog[job]) :
                  stepLog[job][k].outcome = "skipped"
            /\ jobState[job] \in {"running", "failure"}
            /\ \A d \in Jobs(wf) : job \in Needs(d) => ~Ran(d)

\* C10 amended: a failed command fails its step, skips every later step that
\* runs on success(), fails the job and keeps every job that needs it and
\* runs on success() from running; the exceptions are the "Make package
\* public" step, whose failure `|| true` swallows, the SARIF upload, which
\* runs always() when the report exists, and the summary job, which runs
\* always(). No step is attempted twice.
C10_FailureFatalExcept ==
    /\ \A job \in Jobs(wf) : \A i \in 1..Len(stepLog[job]) :
          /\ CmdFailed(stepLog[job][i]) /\ ~Steps(job)[i].swallow =>
                /\ stepLog[job][i].outcome = "failure"
                /\ \A k \in (i + 1)..Len(stepLog[job]) :
                      Steps(job)[k].cond = "success" =>
                          stepLog[job][k].outcome = "skipped"
                /\ jobState[job] \in {"running", "failure"}
                /\ \A d \in Jobs(wf) :
                      job \in Needs(d) /\ JobIf(d) = "success" => ~Ran(d)
          /\ CmdFailed(stepLog[job][i]) /\ Steps(job)[i].swallow =>
                stepLog[job][i].outcome = "success"
    /\ \A job \in Jobs(wf) :
          /\ Len(stepLog[job]) <= Len(Steps(job))
          /\ JobIf(job) = "always" => jobState[job] # "skipped"

\* C10 witness: a step of the build job failed, scan and deploy were skipped
\* and the summary job ran all the same.
C10_Witness ==
    /\ wf = "staging-deploy"
    /\ jobState["build"] = "failure"
    /\ jobState["scan"] = "skipped"
    /\ jobState["deploy"] = "skipped"
    /\ jobState["summary"] = "success"

----------------------------------------------------------------------------
(* Release Please: conventional commits and the version bump *)

\* The kinds of commit message; "breaking" is `feat!:` or a message with a
\* BREAKING CHANGE: footer, "release" the merge of the Release PR.
Releasable == {"feat", "fix", "breaking"}
NonReleasable == {"chore", "docs", "test", "ci"}
CommitKinds == Releasable \cup NonReleasable

Has(commits, kind) == \E i \in 1..Len(commits) : commits[i] = kind

\* As BumpLevel, with `chore:` taken for a patch-level change.
BumpLevelChore(commits) ==
    IF Has(commits, "breaking") THEN "major"
    ELSE IF Has(commits, "feat") THEN "minor"
    ELSE IF Has(commits, "fix") \/ Has(commits, "chore") THEN "patch"
    ELSE "none"

\* The table of commit types: the bump a set of commits asks for is that of
\* its highest-impact commit.
BumpLevel(commits) ==
    IF Has(commits, "breaking") THEN "major"
    ELSE IF Has(commits, "feat") THEN "minor"
    ELSE IF Has(commits, "fix") THEN "patch"
    ELSE "none"

\* As Bump, with the minor and patch components taken for one another.
BumpWrongComponent(v, level) ==
    CASE level = "major" -> <<v[1] + 1, 0, 0>>
      [] level = "minor" -> <<v[1], v[2], v[3] + 1>>
      [] level = "patch" -> <<v[1], v[2] + 1, 0>>
      [] OTHER -> v

\* 1.0.0 -> 1.1.0 (minor), 1.1.0 -> 1.1.1 (patch), 1.1.1 -> 2.0.0 (major).
Bump(v, level) ==
    CASE level = "major" -> <<v[1] + 1, 0, 0>>
      [] level = "minor" -> <<v[1], v[2] + 1, 0>>
      [] level = "patch" -> <<v[1], v[2], v[3] + 1>>
      [] OTHER -> v

\* As NextVersion, bumping once for every commit in turn.
RECURSIVE BumpPerCommit(_, _)
BumpPerCommit(v, commits) ==
    IF commits = << >> THEN v
    ELSE BumpPerCommit(Bump(v, BumpLevel(<<Head(commits)>>)), Tail(commits))

\* The version the Release PR proposes for the commits since the last
\* release.
NextVersion(v, commits) == Bump(v, BumpLevel(commits))

\* The index in main of the newest Release PR merge, 0 when there is none.
LastReleaseCommit(commits) ==
    IF \E i \in 1..Len(commits) : commits[i] = "release"
    THEN CHOOSE i \in 1..Len(commits) :
            /\ commits[i] = "release"
            /\ \A k \in (i + 1)..Len(commits) : commits[k] # "release"
    ELSE 0

\* The commits on main since the last release.
Unreleased(commits) ==
    SubSeq(commits, LastReleaseCommit(commits) + 1, Len(commits))

Pushed(commits) ==
    Cardinality({ i \in 1..Len(commits) : commits[i] # "release" })

----------------------------------------------------------------------------
(* Pushes to main and the workflows they trigger *)

\* A push to main starts a staging-deploy run for the new head; the run in
\* progress for the same ref is cancelled (concurrency, cancel-in-progress).
NewStagingRun(commit) ==
    [commit |-> commit, st |-> [j \in StagingJobs |-> "queued"]]

\* A commit of the given kind is merged to main: staging-deploy.yml and
\* release-please.yml are triggered.
Push(kind) ==
    /\ Pushed(main) < MaxCommits
    /\ main' = Append(main, kind)
    /\ rpPending' = rpPending + 1
    /\ stagingRun' = NewStagingRun(Len(main) + 1)
    /\ UNCHANGED <<version, releasePR, pendingTag, releases, registry,
                   staged, prod, notRel>>

\* As ReleasePleaseRun, with the released version not recorded as the last
\* release.
ReleasePleaseRunKeepsVersion(env) ==
    /\ rpPending > 0
    /\ rpPending' = rpPending - 1
    /\ IF env = "ok"
       THEN /\ IF pendingTag.open
               THEN /\ releases' = Append(releases,
                          [tag |-> pendingTag.version,
                           commit |-> pendingTag.at])
                    /\ version' = version
                    /\ prod' = Append(prod,
                          [j \in ProductionJobs |-> "queued"])
               ELSE UNCHANGED <<releases, version, prod>>
            /\ pendingTag' = NoPR
            /\ releasePR' =
                  IF BumpLevel(Unreleased(main)) # "none"
                  THEN [open |-> TRUE,
                        version |-> NextVersion(version', Unreleased(main)),
                        at |-> Len(main)]
                  ELSE NoPR
       ELSE UNCHANGED <<releases, version, prod, pendingTag, releasePR>>
    /\ UNCHANGED <<main, stagingRun, registry, staged, notRel>>

\* release-please.yml runs. It first creates the GitHub Release and tag of a
\* merged Release PR, which triggers production-deploy.yml; then it opens or
\* updates the Release PR when releasable commits are on main since the last
\* release. When the action fails (env) nothing is changed.
ReleasePleaseRun(env) ==
    /\ rpPending > 0
    /\ rpPending' = rpPending - 1
    /\ IF env = "ok"
       THEN /\ IF pendingTag.open
               THEN /\ releases' = Append(releases,
                          [tag |-> pendingTag.version,
                           commit |-> pendingTag.at])
                    /\ version' = pendingTag.version
                    /\ prod' = Append(prod,
                          [j \in ProductionJobs |-> "queued"])
               ELSE UNCHANGED <<releases, version, prod>>
            /\ pendingTag' = NoPR
            /\ releasePR' =
                  IF BumpLevel(Unreleased(main)) # "none"
                  THEN [open |-> TRUE,
                        version |-> NextVersion(version', Unreleased(main)),
                        at |-> Len(main)]
                  ELSE NoPR
       ELSE UNCHANGED <<releases, version, prod, pendingTag, releasePR>>
    /\ UNCHANGED <<main, stagingRun, registry, staged, notRel>>

\* The Release PR is merged (by a person). Branch protection wants the PR up
\* to date with main. The merge is a push to main: a `chore(main): release`
\* commit that triggers both workflows.
MergeReleasePR ==
    /\ releasePR.open
    /\ releasePR.at = Len(main)
    /\ main' = Append(main, "release")
    /\ pendingTag' = [open |-> TRUE, version |-> releasePR.version,
                      at |-> Len(main) + 1]
    /\ releasePR' = NoPR
    /\ rpPending' = rpPending + 1
    /\ stagingRun' = NewStagingRun(Len(main) + 1)
    /\ UNCHANGED <<version, releases, registry, staged, prod, notRel>>

NextVersioning ==
    \/ \E kind \in CommitKinds : Push(kind)
    \/ \E env \in {"ok", "error"} : ReleasePleaseRun(env)
    \/ MergeReleasePR

InitVersion == DriftStart /\ RunIdle /\ RelStart /\ OtherStart

SpecVersion == InitVersion /\ [][NextVersioning]_vars

----------------------------------------------------------------------------
(* The staging and production runs, at the level of jobs *)

\* The job of the run is queued and every job it needs succeeded.
CanRun(st, job) ==
    /\ st[job] = "queued"
    /\ \A n \in Needs(job) \cap DOMAIN st : st[n] = "success"

\* As StagingJob, with the image pushed by the scan job once it has scanned
\* the image, not by the build job.
StagingJobPushAfterScan(job, env) ==
    /\ CanRun(stagingRun.st, job)
    /\ stagingRun' = [stagingRun EXCEPT !.st[job] =
                         IF env = "ok" THEN "success" ELSE "failure"]
    /\ registry' = IF job = "scan" /\ env = "ok"
                   THEN [registry EXCEPT !.latest = stagingRun.commit,
                                         !.sha = @ \cup {stagingRun.commit}]
                   ELSE registry
    /\ staged' = IF job = "deploy" /\ env = "ok"
                 THEN staged \cup {stagingRun.commit}
                 ELSE staged
    /\ UNCHANGED <<main, version, releasePR, pendingTag, rpPending,
                   releases, prod, notRel>>

\* A job of the newest staging-deploy run runs to its end. build pushes the
\* image of the run's commit as latest and sha-<commit>; scan scans :latest
\* and exits 0 whatever it finds; deploy hands the run's image to staging.
\* A job fails only when a step errors (env); a failed build pushed nothing.
StagingJob(job, env) ==
    /\ CanRun(stagingRun.st, job)
    /\ stagingRun' = [stagingRun EXCEPT !.st[job] =
                         IF env = "ok" THEN "success" ELSE "failure"]
    /\ registry' = IF job = "build" /\ env = "ok"
                   THEN [registry EXCEPT !.latest = stagingRun.commit,
                                         !.sha = @ \cup {stagingRun.commit}]
                   ELSE registry
    /\ staged' = IF job = "deploy" /\ env = "ok"
                 THEN staged \cup {stagingRun.commit}
                 ELSE staged
    /\ UNCHANGED <<main, version, releasePR, pendingTag, rpPending,
                   releases, prod, notRel>>

\* As ProductionJob, with the version tag pushed before the image is
\* pulled, whatever the job's steps then do.
ProductionJobPushFirst(i, job, env) ==
    /\ CanRun(prod[i], job)
    /\ prod' = [prod EXCEPT ![i][job] =
                   IF env = "ok" THEN "success" ELSE "failure"]
    /\ registry' = IF job = "promote-image"
                   THEN [registry EXCEPT !.ver =
                            { e \in @ : e[1] # releases[i].tag }
                            \cup { <<releases[i].tag, registry.latest>> }]
                   ELSE registry
    /\ lastFailure' = IF env = "ok" THEN lastFailure
                      ELSE [release |-> i, job |-> job, env |-> env]
    /\ UNCHANGED <<main, version, releasePR, pendingTag, rpPending,
                   releases, stagingRun, staged, reruns, notPromo>>

\* A job of the production-deploy run of release i runs to its end.
\* promote-image pulls :latest, tags it with the release's tag and pushes
\* that tag, then writes its summary; deploy-production is the placeholder
\* deployment. The job fails when a step errors (env): before the push was
\* done ("error": the tag is not published) or after it ("late-error": the
\* summary step, or a push that the registry took and the client lost).
ProductionJob(i, job, env) ==
    /\ CanRun(prod[i], job)
    /\ prod' = [prod EXCEPT ![i][job] =
                   IF env = "ok" THEN "success" ELSE "failure"]
    /\ registry' = IF job = "promote-image" /\ env # "error"
                   THEN [registry EXCEPT !.ver =
                            { e \in @ : e[1] # releases[i].tag }
                            \cup { <<releases[i].tag, registry.latest>> }]
                   ELSE registry
    /\ lastFailure' = IF env = "ok" THEN lastFailure
                      ELSE [release |-> i, job |-> job, env |-> env]
    /\ UNCHANGED <<main, version, releasePR, pendingTag, rpPending,
                   releases, stagingRun, staged, reruns, notPromo>>

\* The kinds of commit pushed in the promotion runs: one of each bump level
\* that matters to them, and one that releases nothing.
PromotionKinds == {"feat", "fix", "chore"}

\* A push to main while the staging and production runs are under way.
PromotionPush(kind) ==
    /\ Pushed(main) < MaxPushes
    /\ Push(kind)

InitRelease == DriftStart /\ RunIdle /\ RelStart /\ OtherStart

NextRelease ==
    \/ \E kind \in PromotionKinds : PromotionPush(kind)
    \/ \E env \in {"ok", "error"} : ReleasePleaseRun(env)
    \/ MergeReleasePR
    \/ \E job \in StagingJobs, env \in {"ok", "error"} : StagingJob(job, env)
    \/ \E i \in 1..Len(prod), job \in ProductionJobs, env \in Envs :
          ProductionJob(i, job, env)

SpecRelease == InitRelease /\ [][NextRelease]_vars

----------------------------------------------------------------------------
(* Image promotion and the order of the release states: C4, C5 *)

\* C4: the image that carries a release's version tag is the image built
\* from the released commit, and it has passed the staging build, scan and
\* deploy jobs.
C4_PromotesReleasedImage ==
    \A e \in registry.ver :
        \E i \in 1..Len(releases) :
            /\ releases[i].tag = e[1]
            /\ e[2] = releases[i].commit
            /\ e[2] \in staged

\* The states of the release of version v.
PROpen(v) == releasePR.open /\ releasePR.version = v
PRMerged(v) == pendingTag.open /\ pendingTag.version = v
Published(v) == \E i \in 1..Len(releases) : releases[i].tag = v
Promoted(v) == \E e \in registry.ver : e[1] = v
Deployed(v) ==
    \E i \in 1..Len(releases) :
        releases[i].tag = v /\ prod[i]["deploy-production"] = "success"

\* 0 no-pending-release, 1 release-PR-open (open, or merged and not yet
\* released), 2 release-published, 3 image-promoted, 4 production-deployed.
Stage(v) ==
    IF Deployed(v) THEN 4
    ELSE IF Promoted(v) THEN 3
    ELSE IF Published(v) THEN 2
    ELSE IF PROpen(v) \/ PRMerged(v) THEN 1
    ELSE 0

\* The versions some release, Release PR or image tag carries.
Versions ==
    { releases[i].tag : i \in 1..Len(releases) }
    \cup { e[1] : e \in registry.ver }
    \cup { releasePR.version, pendingTag.version }

\* C5: a release moves through no-pending-release, release-PR-open,
\* release-published, image-promoted, production-deployed one state at a
\* time: no step of the system skips a state; a release is published only
\* from a merged Release PR, which was open before; the image is promoted
\* only for a published release and production is deployed only after the
\* promotion job succeeded.
C5_StageOrder ==
    /\ [](\A v \in Versions :
            /\ Deployed(v) => Promoted(v)
            /\ Promoted(v) => Published(v)
            /\ \A i \in 1..Len(prod) :
                  prod[i]["deploy-production"] # "queued"
                      => prod[i]["promote-image"] = "success")
    /\ [][\A v \in Versions \cup Versions' :
            /\ Stage(v)' <= Stage(v) + 1
            /\ Published(v)' /\ ~Published(v) => PRMerged(v)
            /\ PRMerged(v)' /\ ~PRMerged(v) => PROpen(v)]_vars

\* C5 witness: a release went all the way to production-deployed.
C5_Witness ==
    \E i \in 1..Len(releases) :
        /\ Stage(releases[i].tag) = 4
        /\ prod[i]["promote-image"] = "success"
        /\ releases[i].tag = <<1, 1, 0>>

----------------------------------------------------------------------------
(* The version bump: C6, C7, C8 *)

\* The release cycles so far: the published releases, the merged Release PR
\* and the open one, each with the version it starts from, the commits it
\* covers and the version it proposes.
PrevCommit(i) == IF i = 1 THEN 0 ELSE releases[i - 1].commit

Covered(i) == SubSeq(main, PrevCommit(i) + 1, releases[i].commit - 1)

From(i) == IF i = 1 THEN InitialVersion ELSE releases[i - 1].tag

Cycles ==
    { [from |-> From(i), commits |-> Covered(i), to |-> releases[i].tag] :
        i \in 1..Len(releases) }
    \cup (IF releasePR.open
          THEN { [from |-> version,
                  commits |-> SubSeq(main, LastReleaseCommit(main) + 1,
                                     releasePR.at),
                  to |-> releasePR.version] }
          ELSE {})
    \cup (IF pendingTag.open
          THEN { [from |-> version,
                  commits |-> SubSeq(main,
                      IF releases = << >> THEN 1
                      ELSE releases[Len(releases)].commit + 1,
                      pendingTag.at - 1),
                  to |-> pendingTag.version] }
          ELSE {})

Rank(kind) ==
    CASE kind = "breaking" -> 3
      [] kind = "feat" -> 2
      [] kind = "fix" -> 1
      [] OTHER -> 0

Highest(commits) ==
    IF commits = << >> THEN 0
    ELSE CHOOSE r \in 0..3 :
            /\ \E i \in 1..Len(commits) : Rank(commits[i]) = r
            /\ \A i \in 1..Len(commits) : Rank(commits[i]) <= r

OnlyNonReleasable(commits) ==
    \A i \in 1..Len(commits) : commits[i] \in NonReleasable

\* C8: while every commit since the last release is a chore:, docs:, test:
\* or ci: commit no Release PR is open; while every commit on main is one,
\* nothing is merged or published, the version is unchanged and
\* production-deploy was never triggered; production-deploy runs are
\* triggered by published releases only, and every release covers a
\* releasable commit.
C8_NonReleasableNoRelease ==
    /\ OnlyNonReleasable(Unreleased(main)) => ~releasePR.open
    /\ OnlyNonReleasable(main) =>
          /\ ~pendingTag.open
          /\ releases = << >>
          /\ version = InitialVersion
          /\ prod = << >>
    /\ Len(prod) = Len(releases)
    /\ \A c \in Cycles : ~OnlyNonReleasable(c.commits)

\* C8 witness: only docs:, ci: and chore: commits were pushed and every
\* triggered Release Please run has run.
C8_Witness ==
    /\ Len(main) >= 3
    /\ OnlyNonReleasable(main)
    /\ Has(main, "docs") /\ Has(main, "ci") /\ Has(main, "chore")
    /\ rpPending = 0

----------------------------------------------------------------------------
(* Concurrency groups: which runs a new trigger cancels *)

\* The refs a run of each workflow is triggered for: a pull request's merge
\* ref, the main branch, a release's tag.
Refs(w) ==
    CASE w = "pr-checks" -> {"refs/pull/1/merge", "refs/pull/2/merge"}
      [] w = "staging-deploy" -> {"refs/heads/main", "refs/heads/master"}
      [] w = "release-please" -> {"refs/heads/main"}
      [] w = "production-deploy" -> {"refs/tags/v1.1.0"}
      [] OTHER -> {}

\* As CancelInProgress, with the `concurrency:` block in no workflow.
CancelInProgressNowhere(w) == FALSE

\* Whether the workflow file has `concurrency:` with the group
\* <workflow>-<ref> and cancel-in-progress: true.
CancelInProgress(w) == w \in {"pr-checks", "staging-deploy"}

\* As Trigger, with the run in progress in the same group left to run.
TriggerNoCancel(w, ref) ==
    /\ Len(runs) < MaxRuns
    /\ runs' = Append(runs,
          [wf |-> w, ref |-> ref, status |-> "in_progress", steps |-> 0])
    /\ UNCHANGED notCi

\* An event triggers a run of workflow w for ref: with a concurrency group,
\* the run in progress in the same group is cancelled.
Trigger(w, ref) ==
    /\ Len(runs) < MaxRuns
    /\ runs' = Append(
          [i \in 1..Len(runs) |->
              IF /\ CancelInProgress(w)
                 /\ runs[i].wf = w /\ runs[i].ref = ref
                 /\ runs[i].status = "in_progress"
              THEN [runs[i] EXCEPT !.status = "cancelled"]
              ELSE runs[i]],
          [wf |-> w, ref |-> ref, status |-> "in_progress", steps |-> 0])
    /\ UNCHANGED notCi

\* A run in progress takes its next step.
RunProgress(i) ==
    /\ runs[i].status = "in_progress"
    /\ runs[i].steps < RunSteps
    /\ runs' = [runs EXCEPT ![i].steps = @ + 1]
    /\ UNCHANGED notCi

\* A run in progress that took all its steps completes.
RunCompletes(i) ==
    /\ runs[i].status = "in_progress"
    /\ runs[i].steps = RunSteps
    /\ runs' = [runs EXCEPT ![i].status = "completed"]
    /\ UNCHANGED notCi

InitConcurrency == DriftStart /\ RunIdle /\ RelStart /\ OtherStart

NextConcurrency ==
    \/ \E w \in Workflows : \E ref \in Refs(w) : Trigger(w, ref)
    \/ \E i \in 1..Len(runs) : RunProgress(i)
    \/ \E i \in 1..Len(runs) : RunCompletes(i)

SpecConcurrency == InitConcurrency /\ [][NextConcurrency]_vars

\* The runs in progress of workflow w for ref.
InProgress(w, ref) ==
    { i \in 1..Len(runs) :
        runs[i].wf = w /\ runs[i].ref = ref /\ runs[i].status = "in_progress" }

\* The newest run of workflow w for ref, 0 when there is none.
Newest(w, ref) ==
    LET mine == { i \in 1..Len(runs) : runs[i].wf = w /\ runs[i].ref = ref }
    IN  IF mine = {} THEN 0
        ELSE CHOOSE i \in mine : \A k \in mine : k <= i

----------------------------------------------------------------------------
(* The container: `npm start`, its prestart migration and the server *)

\* The migration files of the repository after n schema changes on top of
\* the declared schema, each followed by `npm run db:generate`; the changes
\* add a column and drop it again, by turns.
RECURSIVE TreeAfter(_)
TreeAfter(n) ==
    IF n = 0 THEN InitialTree
    ELSE LET t == TreeAfter(n - 1)
             c == <<"users", "extra", 1>>
         IN  Generate([t EXCEPT !.schema =
                          IF c \in @ THEN @ \ {c} ELSE @ \cup {c}])

Journal == TreeAfter(MaxMigrations).sql

\* Dockerfile, `COPY ... /app/drizzle ./drizzle`: the image built after the
\* n-th migration ships the first n migration files.
ImageMigrations(n) == SubSeq(Journal, 1, n)

Containers == 1..MaxContainers

\* `drizzle-kit migrate` reads the newest row of its migrations table and
\* has every later file of drizzle/ to apply: the position of the first.
FirstPending(db) ==
    IF db.applied = << >> THEN 1 ELSE db.applied[Len(db.applied)] + 1

\* As ApplyPending, with the newest file applied alone and the files
\* between skipped.
ApplyPendingNewestOnly(sql, from, db) ==
    LET res == ApplyFrom(sql, IF from > Len(sql) THEN from ELSE Len(sql),
                         db.cols)
    IN  IF res.ok
        THEN [ok |-> TRUE,
              db |-> [applied |-> db.applied \o
                          (IF from > Len(sql) THEN << >> ELSE <<Len(sql)>>),
                      cols |-> res.db]]
        ELSE [ok |-> FALSE, db |-> db]

\* `drizzle-kit migrate` applies the files from position `from` on, in the
\* order of the journal and in one transaction, and records each: when a
\* statement fails nothing is applied and nothing recorded.
ApplyPending(sql, from, db) ==
    LET res == ApplyFrom(sql, from, db.cols)
    IN  IF res.ok
        THEN [ok |-> TRUE,
              db |-> [applied |-> db.applied \o
                          [k \in 1..(Len(sql) + 1 - from) |-> from + k - 1],
                      cols |-> res.db]]
        ELSE [ok |-> FALSE, db |-> db]

\* As AfterPrestart, with the script's exit status ignored
\* (`drizzle-kit migrate || true`).
AfterPrestartAlways(exit) == "migrated"

\* npm runs `start` only when `prestart` exited 0; otherwise `npm start`
\* fails and the container exits.
AfterPrestart(exit) == IF exit = 0 THEN "migrated" ELSE "exited"

RECURSIVE StartsUpTo(_, _)
StartsUpTo(cs, c) ==
    IF c = 0 THEN 0 ELSE cs[c].starts + StartsUpTo(cs, c - 1)

\* The container starts so far.
Starts(cs) == StartsUpTo(cs, MaxContainers)

\* The container is started (or restarted) from the image with n migration
\* files: CMD ["npm", "start"] runs the prestart script first.
NpmStart(c, n) ==
    /\ containers[c].pc \in {"none", "exited", "stopped"}
    /\ Starts(containers) < MaxStarts
    /\ containers' = [containers EXCEPT ![c] =
          [image |-> n, pc |-> "prestart", from |-> 0,
           starts |-> @.starts + 1]]
    /\ UNCHANGED <<database, toolLocks, overlapped, notApp>>

\* prestart: the migration tool reads what is applied. Nothing in the
\* repository keeps two containers from doing so together; whether the tool
\* itself waits for a run under way is `toolLocks`.
MigrateRead(c) ==
    /\ containers[c].pc = "prestart"
    /\ toolLocks => \A o \in Containers : containers[o].pc # "migrating"
    /\ containers' = [containers EXCEPT ![c].pc = "migrating",
                                        ![c].from = FirstPending(database)]
    /\ overlapped' = (overlapped
                      \/ \E o \in Containers : containers[o].pc = "migrating")
    /\ UNCHANGED <<database, toolLocks, notApp>>

\* prestart: the migration tool applies what it found pending and exits;
\* it exits 1 when a statement fails or the database or the tool cannot be
\* reached (env).
MigrateCommit(c, env) ==
    /\ containers[c].pc = "migrating"
    /\ LET res == ApplyPending(ImageMigrations(containers[c].image),
                               containers[c].from, database)
           exit == IF env = "ok" /\ res.ok THEN 0 ELSE 1
       IN  /\ database' = IF exit = 0 THEN res.db ELSE database
           /\ containers' = [containers EXCEPT ![c].pc = AfterPrestart(exit)]
    /\ UNCHANGED <<toolLocks, overlapped, notApp>>

\* start: the web server is launched.
ServerStart(c) ==
    /\ containers[c].pc = "migrated"
    /\ containers' = [containers EXCEPT ![c].pc = "serving"]
    /\ UNCHANGED <<database, toolLocks, overlapped, notApp>>

\* The container is stopped.
ContainerStop(c) ==
    /\ containers[c].pc = "serving"
    /\ containers' = [containers EXCEPT ![c].pc = "stopped"]
    /\ UNCHANGED <<database, toolLocks, overlapped, notApp>>

InitApp ==
    /\ DriftStart /\ RunIdle /\ RelStart
    /\ CiStart /\ HistStart /\ PromoStart /\ HealthStart /\ RowStart
    /\ SigStart
    /\ database = [applied |-> << >>, cols |-> {}]
    /\ containers = [c \in Containers |->
                        [image |-> 0, pc |-> "none", from |-> 0, starts |-> 0]]
    /\ toolLocks \in BOOLEAN
    /\ overlapped = FALSE

NextApp ==
    \/ \E c \in Containers, n \in 1..Len(Journal) : NpmStart(c, n)
    \/ \E c \in Containers : MigrateRead(c)
    \/ \E c \in Containers, env \in {"ok", "error"} : MigrateCommit(c, env)
    \/ \E c \in Containers : ServerStart(c)
    \/ \E c \in Containers : ContainerStop(c)

SpecApp == InitApp /\ [][NextApp]_vars

Recorded(db) == { db.applied[k] : k \in 1..Len(db.applied) }

\* C12: the server of a container is launched only after its prestart
\* migration run exited 0, and a container whose migration run failed exits
\* without a server; while a server runs, every migration its image ships
\* is recorded as applied in the database.
C12_MigrateBeforeServer ==
    /\ [](\A c \in Containers :
            containers[c].pc \in {"migrated", "serving"}
                => 1..containers[c].image \subseteq Recorded(database))
    /\ [][\A c \in Containers :
            /\ containers'[c].pc = "serving" /\ containers[c].pc # "serving"
                  => containers[c].pc = "migrated"
            /\ containers'[c].pc = "migrated" /\ containers[c].pc # "migrated"
                  => /\ containers[c].pc = "migrating"
                     /\ 1..containers[c].image \subseteq Recorded(database')
            /\ containers[c].pc = "exited"
                  => containers'[c].pc \in {"exited", "prestart"}]_vars

\* C12 witness: one container's migration run failed and it exited, while
\* another serves with all the migrations of the newest image applied.
C12_Witness ==
    \E c, o \in Containers :
        /\ containers[c].pc = "exited" /\ containers[c].image = Len(Journal)
        /\ containers[o].pc = "serving" /\ containers[o].image = Len(Journal)
        /\ Len(database.applied) = Len(Journal)

\* The migrations table lists 1, 2, ..., n: each migration once, in the
\* order of the journal, after all its predecessors.
InOrder(applied) == \A k \in 1..Len(applied) : applied[k] = k

\* C13 as stated: whatever the number of processes that apply migrations,
\* every migration is applied in journal order, at most once and after all
\* its predecessors.
C13_OrderedOnceAnyProcesses == InOrder(database.applied)

\* C13: one migration run applies the files it found pending as a
\* sequential, ordered list: from the first pending one to the last of its
\* image without a gap, so that every file is applied after all its
\* predecessors. When the migration tool serialises concurrent runs, or no
\* two runs were under way together, every migration is applied at most
\* once and the table is in journal order.
C13_OrderedWithinRun ==
    /\ [](/\ (toolLocks \/ ~overlapped) => InOrder(database.applied)
          /\ \A k \in Recorded(database) : 1..k \subseteq Recorded(database))
    /\ [][database' # database =>
            \E c \in Containers :
                /\ containers[c].pc = "migrating"
                /\ containers[c].from <= containers[c].image
                /\ database'.applied = database.applied \o
                      [k \in 1..(containers[c].image + 1 - containers[c].from)
                          |-> containers[c].from + k - 1]]_vars

\* C13 witness: two containers started together against a database that
\* had the first migration, the tool took no lock, and the second and third
\* migration are recorded twice.
C13_Witness ==
    /\ ~toolLocks /\ overlapped
    /\ database.applied = <<1, 2, 3, 2, 3>>

----------------------------------------------------------------------------
(* The tables the migrations create: C14 *)

\* schema.ts: the builder of each column, its type and the modifiers called
\* on it. A column added later is a plain text column.
ColumnBuilder(c) ==
    CASE c = <<"items", "name", 0>> ->
            [type |-> "text", calls |-> {"primaryKey"}]
      [] c = <<"users", "id", 0>> ->
            [type |-> "serial", calls |-> {"primaryKey"}]
      [] c = <<"users", "email", 0>> ->
            [type |-> "text", calls |-> {"notNull", "unique"}]
      [] c = <<"users", "name", 0>> ->
            [type |-> "text", calls |-> {}]
      [] c = <<"users", "created_at", 0>> ->
            [type |-> "timestamp", calls |-> {"defaultNow", "notNull"}]
      [] OTHER -> [type |-> "text", calls |-> {}]

\* As ColumnSql, with the UNIQUE constraint left out of the statement.
ColumnSqlNoUnique(c) ==
    LET b == ColumnBuilder(c)
    IN  [table |-> c[1], column |-> c[2], type |-> b.type,
         primaryKey |-> "primaryKey" \in b.calls,
         notNull |-> b.calls \cap {"notNull", "primaryKey"} # {},
         unique |-> FALSE,
         default |-> IF "defaultNow" \in b.calls THEN "now()" ELSE "none"]

\* The column definition `drizzle-kit generate` writes into the migration:
\* PRIMARY KEY, NOT NULL (also written for a primary key), the UNIQUE
\* constraint and DEFAULT now().
ColumnSql(c) ==
    LET b == ColumnBuilder(c)
    IN  [table |-> c[1], column |-> c[2], type |-> b.type,
         primaryKey |-> "primaryKey" \in b.calls,
         notNull |-> b.calls \cap {"notNull", "primaryKey"} # {},
         unique |-> "unique" \in b.calls,
         default |-> IF "defaultNow" \in b.calls THEN "now()" ELSE "none"]

\* The column the database holds for a definition: serial is an integer
\* that is NOT NULL and defaults to the next value of the column's
\* sequence; a primary key is NOT NULL and unique.
PgColumn(d) ==
    [table |-> d.table, column |-> d.column,
     type |-> IF d.type = "serial" THEN "integer" ELSE d.type,
     primaryKey |-> d.primaryKey,
     notNull |-> d.notNull \/ d.primaryKey \/ d.type = "serial",
     unique |-> d.unique \/ d.primaryKey,
     default |-> IF d.type = "serial" THEN "nextval" ELSE d.default]

\* The tables and columns of a migrated database.
Catalog(cols) == { PgColumn(ColumnSql(c)) : c \in cols }

Col(t, c, ty, pk, nn, uq, df) ==
    [table |-> t, column |-> c, type |-> ty, primaryKey |-> pk,
     notNull |-> nn, unique |-> uq, default |-> df]

----------------------------------------------------------------------------
(* Committed migration files and hand edits: C15 *)

\* A statement a developer writes into a migration file by hand.
HandColumn == <<"users", "edited", 0>>

\* The developer edits a migration file that is already merged: a statement
\* is added to it. One hand edit or deletion is followed.
EditOldMigration(i) ==
    /\ ~tampered
    /\ i \in 1..Len(base.sql)
    /\ i <= Len(work.sql)
    /\ work.sql[i] # MissingFile
    /\ work' = [work EXCEPT !.sql[i].add = @ \cup {HandColumn}]
    /\ tampered' = TRUE
    /\ UNCHANGED <<head, genLog, prCheck, base, notHist>>

\* The developer deletes a migration file that is already merged; the
\* journal and the snapshots are left as they are.
DeleteOldMigration(i) ==
    /\ ~tampered
    /\ i \in 1..Len(base.sql)
    /\ i <= Len(work.sql)
    /\ work.sql[i] # MissingFile
    /\ work' = [work EXCEPT !.sql[i] = MissingFile]
    /\ tampered' = TRUE
    /\ UNCHANGED <<head, genLog, prCheck, base, notHist>>

\* The pull request is merged; branch protection requires the Migration
\* Check to have passed on its head.
MergePR ==
    /\ prCheck.status = "success"
    /\ base # head
    /\ base' = head
    /\ UNCHANGED <<work, head, genLog, prCheck, tampered, notHist>>

InitHistory == DriftStart /\ RunIdle /\ RelStart /\ OtherStart

\* The column the schema edits of these runs add and drop.
HistoryCols == { <<"users", "extra", 1>> }

NextHistory ==
    \/ \E c \in HistoryCols : EditSchemaAdd(c)
    \/ \E c \in HistoryCols : EditSchemaDrop(c)
    \/ DevGenerate
    \/ CommitAll
    \/ CommitSchemaOnly
    \/ CommitMigrations
    \/ PrMigrationCheck
    \/ \E i \in 1..(1 + MaxMigrations) : EditOldMigration(i)
    \/ \E i \in 1..(1 + MaxMigrations) : DeleteOldMigration(i)
    \/ MergePR

SpecHistory == InitHistory /\ [][NextHistory]_vars

IsPrefix(a, b) ==
    /\ Len(a) <= Len(b)
    /\ \A i \in 1..Len(a) : a[i] = b[i]

\* C15 as stated: in every commit that passes the check each merged
\* migration file has kept its content and position, and a commit where one
\* has not fails the drift check.
C15_ImmutableByDriftCheck ==
    /\ prCheck.status = "success" => IsPrefix(base.sql, head.sql)
    /\ ~IsPrefix(base.sql, head.sql) => DriftCheck(head).exit = 1

\* C15: the generation step only appends: it leaves every existing
\* migration file, snapshot and journal entry as it is, so that as long as
\* nobody edits or deletes a migration file by hand every merged file keeps
\* its content and position in the working tree, in every commit and in
\* every later merge. The drift check does not look at the content of
\* migration files: it passes whenever the schema equals the newest
\* snapshot, edited or deleted files or not. A deleted file fails the
\* migrate step of the Migration Check; an edited file that still applies
\* passes it. Only commits that passed the check are merged.
C15_AppendOnlyByGenerate ==
    /\ [](/\ IsPrefix(work.sql, Generate(work).sql)
          /\ IsPrefix(work.snapshots, Generate(work).snapshots)
          /\ IsPrefix(work.journal, Generate(work).journal)
          /\ IsPrefix(head.sql, Generate(head).sql)
          /\ ~tampered => /\ IsPrefix(base.sql, head.sql)
                          /\ IsPrefix(base.sql, work.sql)
                          /\ IsPrefix(head.sql, work.sql)
          /\ head.schema = LastSnapshot(head) => DriftCheck(head).exit = 0
          /\ (prCheck.status # "none"
              /\ \E i \in 1..Len(head.sql) : head.sql[i] = MissingFile)
                => prCheck.status = "failure")
    /\ [][base' # base => prCheck.status = "success" /\ base' = head]_vars

\* C15 witness: a commit in which a merged migration file was edited passed
\* the Migration Check and was merged.
C15_Witness ==
    /\ tampered
    /\ prCheck.status = "success"
    /\ base = head
    /\ HandColumn \in base.sql[1].add

----------------------------------------------------------------------------
(* A failed drift check: C16 *)

\* C16: a failed drift check fails the job and lists the drifted files, the
\* files a generation on the commit leaves; the job commits and pushes
\* nothing: the commit, the working tree and the merged history are as
\* before; the recorded result is the result of every re-run on the same
\* commit, and a failure goes away only with a new commit.
C16_DriftReportedNotRepaired ==
    /\ [](/\ DriftFailed =>
                /\ prCheck.drift # {}
                /\ prCheck.drift = GitStatusPorcelain(head, Generate(head))
                /\ DriftCheck(head).exit = 1
          /\ prCheck # NoCheck => prCheck = MigrationsJob(head))
    /\ [][/\ prCheck' # prCheck /\ prCheck' # NoCheck
               => head' = head /\ work' = work /\ base' = base
          /\ prCheck.status = "failure" /\ prCheck' # prCheck
               => head' # head /\ prCheck' = NoCheck]_vars

\* C16 witness: the drift check failed on a commit whose schema has a
\* column the committed migrations lack, listing the missing migration
\* file, snapshot and journal entry.
C16_Witness ==
    /\ DriftFailed
    /\ head.schema # LastSnapshot(head)
    /\ Cardinality(prCheck.drift) = 3
    /\ work # head

----------------------------------------------------------------------------
(* A failed step of the promotion, and the re-run: C17 *)

\* As RerunProduction, with the release's version tag deleted from the
\* registry before the jobs run again.
RerunProductionUntags(i) ==
    /\ reruns < MaxReruns
    /\ \E job \in ProductionJobs : prod[i][job] = "failure"
    /\ prod' = [prod EXCEPT ![i] =
                   [j \in ProductionJobs |->
                      IF prod[i][j] = "success" THEN "success" ELSE "queued"]]
    /\ reruns' = reruns + 1
    /\ registry' = [registry EXCEPT !.ver =
                       { e \in @ : e[1] # releases[i].tag }]
    /\ UNCHANGED <<main, version, releasePR, pendingTag, rpPending,
                   releases, stagingRun, staged, lastFailure, notPromo>>

\* A person re-runs the failed jobs of the production-deploy run of release
\* i: the failed jobs and the jobs they kept from running are queued again.
\* production-deploy.yml has no other trigger than the published release.
RerunProduction(i) ==
    /\ reruns < MaxReruns
    /\ \E job \in ProductionJobs : prod[i][job] = "failure"
    /\ prod' = [prod EXCEPT ![i] =
                   [j \in ProductionJobs |->
                      IF prod[i][j] = "success" THEN "success" ELSE "queued"]]
    /\ reruns' = reruns + 1
    /\ UNCHANGED <<main, version, releasePR, pendingTag, rpPending,
                   releases, stagingRun, registry, staged, lastFailure,
                   notPromo>>

\* A person re-runs the release-please run that failed to create the
\* release of the merged Release PR.
RerunReleasePlease ==
    /\ reruns < MaxReruns
    /\ pendingTag.open
    /\ rpPending = 0
    /\ rpPending' = 1
    /\ reruns' = reruns + 1
    /\ UNCHANGED <<main, version, releasePR, pendingTag, releases,
                   stagingRun, registry, staged, prod, lastFailure,
                   notPromo>>

InitPromotion == DriftStart /\ RunIdle /\ RelStart /\ OtherStart

\* The flow of one kind of releasable commit is followed: what a failed
\* step leaves behind does not depend on the size of the version bump.
NextPromotion ==
    \/ PromotionPush("feat")
    \/ \E env \in {"ok", "error"} : ReleasePleaseRun(env)
    \/ MergeReleasePR
    \/ \E job \in StagingJobs, env \in {"ok", "error"} : StagingJob(job, env)
    \/ \E i \in 1..Len(prod), job \in ProductionJobs, env \in Envs :
          ProductionJob(i, job, env)
    \/ \E i \in 1..Len(prod) : RerunProduction(i)
    \/ RerunReleasePlease

SpecPromotion == InitPromotion /\ [][NextPromotion]_vars

\* The promote-image job of release i has just failed.
PromoteFails(i) ==
    /\ i \in 1..Len(prod)
    /\ prod[i]["promote-image"] # "failure"
    /\ prod'[i]["promote-image"] = "failure"

\* C17 as the specification states it: a failed promotion has published no
\* version-tagged image.
C17_FailedPromotionPublishesNothing ==
    \A i \in 1..Len(prod) :
        prod[i]["promote-image"] = "failure" => ~Promoted(releases[i].tag)

\* C17, amended: a failed step leaves the flow where it was until a person
\* re-runs it, except that a promotion that fails after its push has
\* published the version tag. A release-please run that fails to create the
\* release leaves the merged Release PR, the version, the registry and the
\* production runs as they were; a promote-image job that fails before its
\* push is done leaves the registry as it was, and one that fails after it
\* changes nothing but the tag of its own release; a failed deploy job
\* changes nothing in the registry; deploy-production never runs after a
\* failed promote-image and no release is deployed that was not promoted; a
\* failed job stays failed until a person re-runs it, and the re-run is
\* possible.
C17_FailedStepKeepsState ==
    /\ [](\A i \in 1..Len(prod) :
            /\ prod[i]["deploy-production"] # "queued"
                  => prod[i]["promote-image"] = "success"
            /\ prod[i]["deploy-production"] = "success"
                  => Promoted(releases[i].tag)
            /\ (reruns < MaxReruns
                  /\ \E job \in ProductionJobs : prod[i][job] = "failure")
                  => ENABLED RerunProduction(i))
    /\ [][/\ (pendingTag.open /\ rpPending' < rpPending
                /\ releases' = releases)
              => /\ pendingTag' = pendingTag
                 /\ version' = version
                 /\ registry' = registry
                 /\ prod' = prod
          /\ \A i \in 1..Len(prod) :
               /\ (PromoteFails(i) /\ lastFailure'.env = "error")
                    => registry' = registry
               /\ PromoteFails(i)
                    => /\ registry'.latest = registry.latest
                       /\ registry'.sha = registry.sha
                       /\ { e \in registry'.ver : e[1] # releases[i].tag }
                            = { e \in registry.ver : e[1] # releases[i].tag }
               /\ (prod[i]["deploy-production"] # "failure"
                    /\ prod'[i]["deploy-production"] = "failure")
                    => registry' = registry
               /\ \A job \in ProductionJobs :
                    (prod[i][job] = "failure" /\ prod'[i][job] # "failure")
                    => /\ reruns' = reruns + 1
                       /\ prod'[i][job] = "queued"
                       /\ registry' = registry]_vars

\* The promotion of a release failed before its push, a person re-ran it,
\* and the release is promoted and deployed.
C17_Witness ==
    /\ reruns = 1
    /\ lastFailure.job = "promote-image"
    /\ lastFailure.env = "error"
    /\ lastFailure.release \in 1..Len(prod)
    /\ \A job \in ProductionJobs : prod[lastFailure.release][job] = "success"
    /\ Promoted(releases[lastFailure.release].tag)
----------------------------------------------------------------------------
(* The container's health check: C18 *)

\* HEALTHCHECK --interval=30s --timeout=3s --start-period=5s --retries=3
Interval == 30
Timeout == 3
StartPeriod == 5
Retries == 3

\* The status codes /health is followed with, and the seconds it takes to
\* answer: within the timeout or not.
StatusCodes == {200, 204, 301, 500, 503}
Latencies == {1, 4}

\* What a probe's GET /health meets: an answer with a status code after
\* some seconds, or no listener on the port.
Responses ==
    [kind : {"answer"}, statusCode : StatusCodes, after : Latencies]
    \cup {[kind |-> "refused", statusCode |-> 0, after |-> 0]}

\* As HealthCmd, with every answer taken as healthy.
HealthCmdAnyAnswer(resp) ==
    IF resp.kind = "refused" THEN 1 ELSE 0

\* The exit code of the probe command, left to run: the callback exits 0
\* when res.statusCode === 200 and 1 otherwise; a refused connection emits
\* an 'error' event nothing handles, and node exits 1.
HealthCmd(resp) ==
    IF resp.kind = "refused" THEN 1
    ELSE IF resp.statusCode = 200 THEN 0 ELSE 1

\* The exit code Docker records for the probe: -1 when the command has not
\* ended within the timeout and is killed, else the command's own.
ProbeExit(resp) ==
    IF resp.kind = "answer" /\ resp.after >= Timeout
    THEN -1
    ELSE HealthCmd(resp)

\* The second at which the n-th probe of a container starts: one interval
\* after the start or after the probe before it.
ProbeStart(n) == n * Interval

\* Docker's handling of a probe's result: exit code 0 makes the container
\* healthy and ends the failing streak; any other adds to the streak, unless
\* the container is starting and the probe began within the start period,
\* and the container is unhealthy once the streak reaches the retries.
HandleProbeResult(h, exit, startedAt) ==
    IF exit = 0
    THEN [status |-> "healthy", failingStreak |-> 0]
    ELSE IF h.status = "starting" /\ startedAt < StartPeriod
    THEN h
    ELSE [status |-> IF h.failingStreak + 1 >= Retries
                     THEN "unhealthy" ELSE h.status,
          failingStreak |-> h.failingStreak + 1]

\* The next probe of the container runs and meets resp.
Probe(resp) ==
    /\ Len(probes) < MaxProbes
    /\ probes' = Append(probes, resp)
    /\ health' = HandleProbeResult(health, ProbeExit(resp),
                                   ProbeStart(Len(probes) + 1))
    /\ UNCHANGED notHealth

\* The container is started again: its health state starts anew.
ContainerRestart ==
    /\ probes # << >>
    /\ probes' = << >>
    /\ health' = [status |-> "starting", failingStreak |-> 0]
    /\ UNCHANGED notHealth

InitHealth == DriftStart /\ RunIdle /\ RelStart /\ OtherStart

NextHealth ==
    \/ \E resp \in Responses : Probe(resp)
    \/ ContainerRestart

SpecHealth == InitHealth /\ [][NextHealth]_vars

\* The probe that met resp failed, in the words of the claim: a status
\* other than 200, no answer within the timeout, or no connection.
ProbeFailed(resp) ==
    \/ resp.kind = "refused"
    \/ resp.kind = "answer" /\ resp.after > Timeout
    \/ resp.kind = "answer" /\ resp.statusCode # 200

\* The last n probes of the container all failed.
LastFailed(n) ==
    /\ Len(probes) >= n
    /\ \A k \in (Len(probes) - n + 1)..Len(probes) : ProbeFailed(probes[k])

\* C18: the container is unhealthy exactly when its last three probes all
\* failed, a probe failing when /health answers with a status other than
\* 200, does not answer within the timeout or cannot be reached; fewer
\* consecutive failures never make it unhealthy, a probe that gets 200 in
\* time makes it healthy, and only such a probe does.
C18_UnhealthyAfterThreeFailures ==
    /\ [](/\ health.status = "unhealthy" <=> LastFailed(Retries)
          /\ health.status = "healthy"
                <=> (/\ ~LastFailed(Retries)
                     /\ \E k \in 1..Len(probes) : ~ProbeFailed(probes[k]))
          /\ (probes # << >> /\ ~LastFailed(1)) => health.status = "healthy")
    /\ [][\A resp \in Responses :
            (probes' = Append(probes, resp)
              /\ health.status # "healthy" /\ health'.status = "healthy")
            => (resp.kind = "answer" /\ resp.statusCode = 200)]_vars

\* A healthy container became unhealthy at its third failed probe in a
\* row, one of each kind of failure.
C18_Witness ==
    /\ Len(probes) = 4
    /\ ~ProbeFailed(probes[1])
    /\ probes[2].kind = "answer" /\ probes[2].statusCode = 503
    /\ probes[2].after < Timeout
    /\ probes[3].kind = "answer" /\ probes[3].statusCode = 200
    /\ probes[3].after > Timeout
    /\ probes[4].kind = "refused"
    /\ health.status = "unhealthy"
----------------------------------------------------------------------------
(* Build, push and scan of the staging image: C19 *)

\* The image of the newest staging run's commit is in the registry.
ImageAvailable ==
    \/ registry.latest = stagingRun.commit
    \/ stagingRun.commit \in registry.sha

\* The job of the newest staging run has run, to success or to failure.
JobRan(job) == stagingRun.st[job] \in {"success", "failure"}

\* C19 as the specification states it: no image of a merged commit is in
\* the registry before the vulnerability scan of that image has run.
C19_ScannedBeforePushed ==
    (stagingRun.commit >= 1 /\ ImageAvailable) => JobRan("scan")

\* C19, amended: on a merge to main the image is built and pushed, then
\* scanned, in that order. The build job's success puts the image in the
\* registry as latest and sha-<commit> while the scan has not yet run; the
\* scan runs only after the build succeeded, on the image already in the
\* registry; the staging deploy runs only after both succeeded.
C19_PushedBeforeScanned ==
    /\ [](stagingRun.commit >= 1 =>
            /\ JobRan("scan")
                  => /\ stagingRun.st["build"] = "success"
                     /\ stagingRun.commit \in registry.sha
            /\ JobRan("deploy")
                  => /\ stagingRun.st["build"] = "success"
                     /\ stagingRun.st["scan"] = "success"
            /\ stagingRun.st["build"] = "success"
                  => stagingRun.commit \in registry.sha)
    /\ [][(/\ stagingRun'.commit = stagingRun.commit
           /\ stagingRun.st["build"] = "queued"
           /\ stagingRun'.st["build"] = "success")
          => /\ registry'.latest = stagingRun.commit
             /\ stagingRun.commit \in registry'.sha
             /\ stagingRun'.st["scan"] = "queued"]_vars

\* The image of a merged commit was pushed by the build job and the scan
\* job then scanned it.
C19_Witness ==
    /\ stagingRun.commit >= 1
    /\ stagingRun.st["build"] = "success"
    /\ stagingRun.st["scan"] = "success"
    /\ stagingRun.st["deploy"] = "queued"
    /\ registry.latest = stagingRun.commit
    /\ stagingRun.commit \in registry.sha
----------------------------------------------------------------------------
(* The rows of users and items under the database's constraints: C20 *)

\* What a column of a row holds: NULL, or a value.
Null == << >>
Val(v) == <<v>>

\* The values the statements are followed with.
EmailValues == {Val("a@example.com"), Val("b@example.com"), Null}
IdValues == {Val(1), Val(2), Null}
NameValues == {Val("first"), Val("second"), Null}

\* The columns of a table of the migrated database.
Columns(t) == { d \in Catalog(Migrate(InitialTree).db) : d.table = t }
ColumnNames(t) == { d.column : d \in Columns(t) }

\* The value a column takes when the statement gives none.
DefaultValue(d, seq) ==
    CASE d.default = "nextval" -> Val(seq + 1)
      [] d.default = "now()" -> Val("now")
      [] OTHER -> Null

\* The row an INSERT with the given values makes.
NewRow(t, vals, seq) ==
    [c \in ColumnNames(t) |->
        IF c \in DOMAIN vals THEN vals[c]
        ELSE DefaultValue(CHOOSE d \in Columns(t) : d.column = c, seq)]

\* The row an UPDATE with the given values makes of a row.
SetRow(row, vals) ==
    [c \in DOMAIN row |-> IF c \in DOMAIN vals THEN vals[c] ELSE row[c]]

\* As CheckRow, with NOT NULL the only constraint looked at.
CheckRowNotNullOnly(t, rows, at, row) ==
    IF \E d \in Columns(t) : d.notNull /\ row[d.column] = Null
    THEN "not_null_violation"
    ELSE "ok"

\* What the database answers when the row is to be stored in the table, in
\* place of the row at `at` (0 for a new row): NOT NULL columns take no
\* NULL, and a unique or primary key column takes no value another row has.
CheckRow(t, rows, at, row) ==
    IF \E d \in Columns(t) : d.notNull /\ row[d.column] = Null
    THEN "not_null_violation"
    ELSE IF \E d \in Columns(t) :
               /\ d.unique
               /\ row[d.column] # Null
               /\ \E k \in (1..Len(rows)) \ {at} :
                     rows[k][d.column] = row[d.column]
    THEN "unique_violation"
    ELSE "ok"

Remove(rows, at) ==
    [k \in 1..(Len(rows) - 1) |-> IF k < at THEN rows[k] ELSE rows[k + 1]]

\* The INSERTs and UPDATEs followed: with and without a value for a column.
UserInserts ==
    { [email |-> e] : e \in EmailValues }
    \cup { [id |-> i, email |-> e] : i \in IdValues, e \in EmailValues }
    \cup { [id |-> i] : i \in IdValues }
UserUpdates ==
    { [email |-> e] : e \in EmailValues } \cup { [id |-> i] : i \in IdValues }
ItemValues == { [name |-> n] : n \in NameValues }

\* INSERT INTO users. The default of id takes the next value of the
\* sequence, which the sequence keeps whether or not the row is stored.
InsertUser(vals) ==
    LET usesSeq == "id" \notin DOMAIN vals
        row == NewRow("users", vals, usersIdSeq)
        res == CheckRow("users", userRows, 0, row)
    IN  /\ Len(userRows) < MaxRows
        /\ usesSeq => usersIdSeq < MaxSeq
        /\ usersIdSeq' = IF usesSeq THEN usersIdSeq + 1 ELSE usersIdSeq
        /\ userRows' = IF res = "ok" THEN Append(userRows, row) ELSE userRows
        /\ lastResult' = [op |-> "insert", table |-> "users", at |-> 0,
                          new |-> row, result |-> res]
        /\ UNCHANGED <<itemRows, notRows>>

\* UPDATE users SET ... for the row stored at `at`.
UpdateUser(at, vals) ==
    LET row == SetRow(userRows[at], vals)
        res == CheckRow("users", userRows, at, row)
    IN  /\ userRows' = IF res = "ok" THEN [userRows EXCEPT ![at] = row]
                       ELSE userRows
        /\ lastResult' = [op |-> "update", table |-> "users", at |-> at,
                          new |-> row, result |-> res]
        /\ UNCHANGED <<itemRows, usersIdSeq, notRows>>

\* DELETE FROM users for the row stored at `at`.
DeleteUser(at) ==
    /\ userRows' = Remove(userRows, at)
    /\ lastResult' = [op |-> "delete", table |-> "users", at |-> at,
                      new |-> userRows[at], result |-> "ok"]
    /\ UNCHANGED <<itemRows, usersIdSeq, notRows>>

\* INSERT INTO items.
InsertItem(vals) ==
    LET row == NewRow("items", vals, 0)
        res == CheckRow("items", itemRows, 0, row)
    IN  /\ Len(itemRows) < MaxRows
        /\ itemRows' = IF res = "ok" THEN Append(itemRows, row) ELSE itemRows
        /\ lastResult' = [op |-> "insert", table |-> "items", at |-> 0,
                          new |-> row, result |-> res]
        /\ UNCHANGED <<userRows, usersIdSeq, notRows>>

\* UPDATE items SET name = ... for the row stored at `at`.
UpdateItem(at, vals) ==
    LET row == SetRow(itemRows[at], vals)
        res == CheckRow("items", itemRows, at, row)
    IN  /\ itemRows' = IF res = "ok" THEN [itemRows EXCEPT ![at] = row]
                       ELSE itemRows
        /\ lastResult' = [op |-> "update", table |-> "items", at |-> at,
                          new |-> row, result |-> res]
        /\ UNCHANGED <<userRows, usersIdSeq, notRows>>

\* DELETE FROM items for the row stored at `at`.
DeleteItem(at) ==
    /\ itemRows' = Remove(itemRows, at)
    /\ lastResult' = [op |-> "delete", table |-> "items", at |-> at,
                      new |-> itemRows[at], result |-> "ok"]
    /\ UNCHANGED <<userRows, usersIdSeq, notRows>>

InitRows == DriftStart /\ RunIdle /\ RelStart /\ OtherStart

NextRows ==
    \/ \E vals \in UserInserts : InsertUser(vals)
    \/ \E at \in 1..Len(userRows), vals \in UserUpdates : UpdateUser(at, vals)
    \/ \E at \in 1..Len(userRows) : DeleteUser(at)
    \/ \E vals \in ItemValues : InsertItem(vals)
    \/ \E at \in 1..Len(itemRows), vals \in ItemValues : UpdateItem(at, vals)
    \/ \E at \in 1..Len(itemRows) : DeleteItem(at)

SpecRows == InitRows /\ [][NextRows]_vars

\* No two rows stored have the same value in the column.
Distinct(rows, c) ==
    \A i, j \in 1..Len(rows) : i # j => rows[i][c] # rows[j][c]

\* C20: after any sequence of inserts, updates and deletes no two users
\* have the same email or the same id, every user has an email, and no two
\* items have the same name; an insert or update that would give a user the
\* email of another stored user, or no email, is rejected, and a rejected
\* statement leaves both tables as they were.
C20_UniqueByTheEngine ==
    /\ [](/\ Distinct(userRows, "email")
          /\ Distinct(userRows, "id")
          /\ Distinct(itemRows, "name")
          /\ \A k \in 1..Len(userRows) : userRows[k]["email"] # Null)
    /\ [][/\ (/\ lastResult'.table = "users"
              /\ lastResult'.op \in {"insert", "update"}
              /\ \/ lastResult'.new["email"] = Null
                 \/ \E k \in (1..Len(userRows)) \ {lastResult'.at} :
                       userRows[k]["email"] = lastResult'.new["email"])
             => lastResult'.result # "ok"
          /\ lastResult'.result # "ok"
             => userRows' = userRows /\ itemRows' = itemRows]_vars

\* Two users are stored, the second with an id of the sequence, and an
\* update that would give one the email of the other was rejected.
C20_Witness ==
    /\ Len(userRows) = 2
    /\ usersIdSeq = 2
    /\ userRows[2]["id"] = Val(usersIdSeq)
    /\ lastResult.table = "users"
    /\ lastResult.op = "update"
    /\ lastResult.result = "unique_violation"
    /\ lastResult.new["email"] = userRows[1]["email"]
    /\ lastResult.new["id"] = userRows[2]["id"]
----------------------------------------------------------------------------
(* Signals through dumb-init and npm start to the server: C21 *)

\* The signals `docker stop` and a terminal send to the container.
Signals == {"SIGTERM", "SIGINT"}

\* A process that has ended: with status 0, with another status, by a
\* signal it received, or killed when PID 1 ended.
Ended == {"exited", "failed", "terminated", "killed"}

\* The processes of the session dumb-init made for its child: npm and the
\* scripts it runs.
Session == {"npm", "prestart", "server"}

\* The script npm is running, if any.
RunningScript == { p \in {"prestart", "server"} : procs[p] = "running" }

\* dumb-init forks its child and the child execs `npm start` in a session
\* of its own.
InitSpawn ==
    /\ procs["dumb-init"] = "running"
    /\ procs["npm"] = "none"
    /\ procs' = [procs EXCEPT !["npm"] = "running"]
    /\ UNCHANGED <<pending, sent, notSig>>

\* npm start runs the prestart script first.
NpmPrestart ==
    /\ procs["npm"] = "running"
    /\ procs["prestart"] = "none"
    /\ procs' = [procs EXCEPT !["prestart"] = "running"]
    /\ UNCHANGED <<pending, sent, notSig>>

\* The prestart script ends by itself, with status 0 or not.
PrestartExit(status) ==
    /\ procs["prestart"] = "running"
    /\ procs' = [procs EXCEPT !["prestart"] = status]
    /\ pending' = [pending EXCEPT !["prestart"] = {}]
    /\ UNCHANGED <<sent, notSig>>

\* npm runs the start script, the web server, once prestart exited 0.
NpmStartScript ==
    /\ procs["npm"] = "running"
    /\ procs["prestart"] = "exited"
    /\ procs["server"] = "none"
    /\ procs' = [procs EXCEPT !["server"] = "running"]
    /\ UNCHANGED <<pending, sent, notSig>>

\* npm ends when the script it ran has ended other than with status 0, or
\* when the server has ended; its status is the script's.
NpmExit ==
    /\ procs["npm"] = "running"
    /\ \/ procs["prestart"] \in Ended \ {"exited"}
       \/ procs["server"] \in Ended
    /\ procs' = [procs EXCEPT !["npm"] =
                    IF procs["server"] = "exited" THEN "exited" ELSE "failed"]
    /\ pending' = [pending EXCEPT !["npm"] = {}]
    /\ UNCHANGED <<sent, notSig>>

\* dumb-init ends with its child's status when its child has ended; with
\* PID 1 gone the kernel kills every process left in the container.
DumbInitExit ==
    /\ procs["dumb-init"] = "running"
    /\ procs["npm"] \in Ended
    /\ procs' = [p \in Processes |->
                   IF p = "dumb-init"
                   THEN (IF procs["npm"] = "exited" THEN "exited" ELSE "failed")
                   ELSE IF procs[p] = "running" THEN "killed" ELSE procs[p]]
    /\ pending' = [p \in Processes |-> {}]
    /\ UNCHANGED <<sent, notSig>>

\* A signal is sent to the container: it is delivered to PID 1, dumb-init.
DockerSignal(sig) ==
    /\ sent < MaxSignals
    /\ procs["dumb-init"] = "running"
    /\ pending' = [pending EXCEPT !["dumb-init"] = @ \cup {sig}]
    /\ sent' = sent + 1
    /\ UNCHANGED <<procs, notSig>>

\* As DumbInitForward, with the signal taken and sent on to nobody.
DumbInitForwardDrops(sig) ==
    /\ procs["dumb-init"] = "running"
    /\ procs["npm"] # "none"
    /\ sig \in pending["dumb-init"]
    /\ pending' = [pending EXCEPT !["dumb-init"] = @ \ {sig}]
    /\ UNCHANGED <<procs, sent, notSig>>

\* dumb-init, which keeps signals blocked until it has forked its child,
\* sends a signal it received on to the child's session: to every process
\* of the session then running.
DumbInitForward(sig) ==
    /\ procs["dumb-init"] = "running"
    /\ procs["npm"] # "none"
    /\ sig \in pending["dumb-init"]
    /\ pending' = [p \in Processes |->
                     IF p = "dumb-init" THEN pending[p] \ {sig}
                     ELSE IF p \in Session /\ procs[p] = "running"
                          THEN pending[p] \cup {sig}
                          ELSE pending[p]]
    /\ UNCHANGED <<procs, sent, notSig>>

\* npm takes a signal sent to it: with a script running it either sends the
\* signal on to the script and waits for it, or ends at once; with no
\* script running it ends.
NpmSignal(sig, forwards) ==
    /\ procs["npm"] = "running"
    /\ sig \in pending["npm"]
    /\ forwards => RunningScript # {}
    /\ IF forwards
       THEN /\ pending' = [p \in Processes |->
                              IF p = "npm" THEN pending[p] \ {sig}
                              ELSE IF p \in RunningScript
                                   THEN pending[p] \cup {sig}
                                   ELSE pending[p]]
            /\ UNCHANGED procs
       ELSE /\ procs' = [procs EXCEPT !["npm"] = "terminated"]
            /\ pending' = [pending EXCEPT !["npm"] = {}]
    /\ UNCHANGED <<sent, notSig>>

\* A script of npm takes a signal sent to it and ends: the prestart script
\* is terminated, the server is terminated or shuts down and exits 0.
ScriptSignal(p, sig, status) ==
    /\ procs[p] = "running"
    /\ sig \in pending[p]
    /\ status = "exited" => p = "server"
    /\ procs' = [procs EXCEPT ![p] = status]
    /\ pending' = [pending EXCEPT ![p] = {}]
    /\ UNCHANGED <<sent, notSig>>

InitSignals == DriftStart /\ RunIdle /\ RelStart /\ OtherStart

\* What the processes of the container do once they can.
ProcessStep ==
    \/ InitSpawn
    \/ NpmPrestart
    \/ \E status \in {"exited", "failed"} : PrestartExit(status)
    \/ NpmStartScript
    \/ NpmExit
    \/ DumbInitExit
    \/ \E sig \in Signals : DumbInitForward(sig)
    \/ \E sig \in Signals, forwards \in BOOLEAN : NpmSignal(sig, forwards)
    \/ \E p \in {"prestart", "server"}, sig \in Signals,
          status \in {"exited", "terminated"} : ScriptSignal(p, sig, status)

NextSignals ==
    \/ \E sig \in Signals : DockerSignal(sig)
    \/ ProcessStep

\* A process that can take a step is scheduled in the end.
SpecSignals == InitSignals /\ [][NextSignals]_vars /\ WF_vars(ProcessStep)

NoneRunning == \A p \in Processes : procs[p] # "running"

\* A signal sent to the container is at dumb-init, at npm or at the server
\* while the server runs.
SignalWhileServing ==
    /\ procs["server"] = "running"
    /\ \E p \in {"dumb-init", "npm", "server"} : pending[p] # {}

\* C21 as the specification states it: after a termination signal was sent
\* to the container, no process of the container is left running in the
\* end.
C21_SignalTerminatesAll == (sent > 0) ~> NoneRunning

\* C21, amended: a termination signal that reaches the container while the
\* server runs is sent on through dumb-init and npm to the server, and in
\* the end no process of the container is left running; a signal sent
\* before the server started ends the container or, when the prestart
\* script exits 0 as npm takes the signal, is followed by the server's
\* start; the running server ends only on a signal sent on to it or with
\* PID 1, and once dumb-init has ended nothing runs.
C21_SignalWhileServingTerminatesAll ==
    /\ SignalWhileServing ~> NoneRunning
    /\ (sent > 0) ~> (NoneRunning \/ procs["server"] = "running")
    /\ [](procs["dumb-init"] # "running" => NoneRunning)
    /\ [][(procs["server"] = "running" /\ procs'["server"] # "running")
          => \/ pending["server"] # {} /\ procs'["server"] # "killed"
             \/ procs'["dumb-init"] # "running"
                  /\ procs'["server"] = "killed"]_vars

\* One signal was sent while the server ran; the server took it and ended,
\* npm and dumb-init after it.
C21_Witness ==
    /\ sent = 1
    /\ procs["prestart"] = "exited"
    /\ procs["server"] = "terminated"
    /\ procs["npm"] = "failed"
    /\ procs["dumb-init"] = "failed"
----------------------------------------------------------------------------
(* The tag the staging deploy job is handed, and the tags pushed: C22 *)

\* github.sha has 40 hexadecimal digits; docker/metadata-action's type=sha
\* keeps the first 7 of them.
ShaLen == 40
ShortLen == 7

\* github.sha of a commit of main: its hexadecimal digits.
GitSha(c) == [i \in 1..ShaLen |-> (7 * c + 3 * i) % 16]

\* steps.meta.outputs.tags: type=raw,value=latest and type=sha, which is
\* sha- and the short form of the commit's SHA.
MetadataTags(c) ==
    { [kind |-> "raw", value |-> << >>],
      [kind |-> "sha", value |-> SubSeq(GitSha(c), 1, ShortLen)] }

\* The build job's output sha_tag: sha-${{ github.sha }}.
ShaTagOutput(c) == [kind |-> "sha", value |-> GitSha(c)]

\* The tags the staging builds have pushed to the registry.
RegistryTags == UNION { MetadataTags(c) : c \in registry.sha }

\* C22: for every successful staging build, the tag handed to the deploy
\* job (the build job's output sha_tag) is one of the tags the build job
\* pushed.
C22_DeployTagWasPushed ==
    (stagingRun.commit >= 1 /\ stagingRun.st["build"] = "success")
    => ShaTagOutput(stagingRun.commit) \in RegistryTags
----------------------------------------------------------------------------
(* The order of the staging jobs, with the run cancelled or not: C23 *)

\* The run is cancelled, by a person or by a newer run of its concurrency
\* group: the jobs that run are cancelled, and so are the queued jobs but
\* those that run always().
CancelRun ==
    /\ \E j \in Jobs(wf) :
          \/ jobState[j] = "running"
          \/ jobState[j] = "queued" /\ JobIf(j) # "always"
    /\ jobState' = [j \in Jobs(wf) |->
                       IF \/ jobState[j] = "running"
                          \/ jobState[j] = "queued" /\ JobIf(j) # "always"
                       THEN "cancelled"
                       ELSE jobState[j]]
    /\ UNCHANGED <<wf, findings, stepLog, sarif, notRun>>

\* A staging-deploy run is triggered.
InitStagingRun ==
    /\ DriftStart
    /\ RelStart
    /\ OtherStart
    /\ wf = "staging-deploy"
    /\ findings \in { {} } \cup { {f} : f \in Findings }
    /\ jobState = [j \in Jobs("staging-deploy") |-> "queued"]
    /\ stepLog = [j \in Jobs("staging-deploy") |-> << >>]
    /\ sarif = FALSE

NextStagingRun ==
    \/ \E job \in Jobs(wf) : StartJob(job)
    \/ \E job \in Jobs(wf) : SkipJob(job)
    \/ \E job \in Jobs(wf), env \in Envs : RunStep(job, env)
    \/ \E job \in Jobs(wf) : FinishJob(job)
    \/ CancelRun

SpecStagingRun == InitStagingRun /\ [][NextStagingRun]_vars

\* The job starts in this step.
JobStarts(job) == jobState[job] = "queued" /\ jobState'[job] = "running"

\* C23: in every staging-deploy run the scan job starts only after the
\* build job succeeded and the deploy job only after build and scan
\* succeeded; the summary job starts only once build, scan and deploy have
\* finished, can start whatever their results (success, failure, skipped or
\* cancelled), is never skipped and never cancelled before it started, and
\* the scan and deploy results it reports no longer change.
C23_StagingJobOrder ==
    /\ [](/\ jobState["summary"] # "skipped"
          /\ (jobState["summary"] = "queued"
               /\ \A j \in {"build", "scan", "deploy"} :
                     jobState[j] \in {"success", "failure", "skipped",
                                      "cancelled"})
              => ENABLED StartJob("summary")
          /\ jobState["summary"] \in {"running", "success", "failure"}
              => \A j \in {"build", "scan", "deploy"} :
                    jobState[j] \in {"success", "failure", "skipped",
                                     "cancelled"})
    /\ [][/\ JobStarts("scan") => jobState["build"] = "success"
          /\ JobStarts("deploy") => /\ jobState["build"] = "success"
                                   /\ jobState["scan"] = "success"
          /\ JobStarts("summary")
               => \A j \in {"build", "scan", "deploy"} :
                     jobState[j] \in {"success", "failure", "skipped",
                                      "cancelled"}
          /\ jobState'["summary"] = "cancelled"
               => jobState["summary"] \in {"running", "cancelled"}
          /\ jobState["summary"] # "queued"
               => /\ jobState'["scan"] = jobState["scan"]
                  /\ jobState'["deploy"] = jobState["deploy"]]_vars

\* The summary job ran to its end after a run whose build was cancelled,
\* and after one whose scan failed and whose deploy was skipped.
C23_Witness ==
    /\ jobState["summary"] = "success"
    /\ \/ jobState["build"] = "cancelled"
       \/ jobState["scan"] = "failure" /\ jobState["deploy"] = "skipped"
----------------------------------------------------------------------------
(* Which image the tag latest names after overlapping staging runs: C24 *)

\* The build job of staging run i builds the image of the run's commit and
\* pushes it as latest and sha-<commit>. Commits are numbered by the order
\* in which their runs were triggered.
BuildPush(i) ==
    /\ runs[i].wf = "staging-deploy"
    /\ runs[i].status = "in_progress"
    /\ runs[i].steps = 0
    /\ runs' = [runs EXCEPT ![i].steps = 1]
    /\ registry' = [registry EXCEPT !.latest = i, !.sha = @ \cup {i}]
    /\ UNCHANGED <<main, version, releasePR, pendingTag, rpPending, releases,
                   stagingRun, staged, prod, driftVars, runVars, appVars,
                   histVars, promoVars, healthVars, rowVars, sigVars>>

\* The build job of staging run i fails and pushes nothing; the run ends.
BuildFail(i) ==
    /\ runs[i].wf = "staging-deploy"
    /\ runs[i].status = "in_progress"
    /\ runs[i].steps = 0
    /\ runs' = [runs EXCEPT ![i].status = "failed"]
    /\ UNCHANGED notCi

\* The jobs after the build job run.
AfterBuild(i) ==
    /\ runs[i].steps >= 1
    /\ RunProgress(i)

InitLatest == DriftStart /\ RunIdle /\ RelStart /\ OtherStart

\* Pushes to main and master and manual dispatches on them start runs.
NextLatest ==
    \/ \E ref \in Refs("staging-deploy") : Trigger("staging-deploy", ref)
    \/ \E i \in 1..Len(runs) : BuildPush(i)
    \/ \E i \in 1..Len(runs) : BuildFail(i)
    \/ \E i \in 1..Len(runs) : AfterBuild(i)
    \/ \E i \in 1..Len(runs) : RunCompletes(i)

SpecLatest == InitLatest /\ [][NextLatest]_vars

\* The newest commit whose image was pushed.
NewestBuilt == CHOOSE c \in registry.sha : \A d \in registry.sha : d <= c

AllRunsFinished == \A i \in 1..Len(runs) : runs[i].status # "in_progress"

\* C24 as the specification states it: once all staging runs have finished,
\* latest names the image of the most recently triggered commit whose build
\* succeeded.
C24_LatestIsNewestBuilt ==
    AllRunsFinished => registry.latest = NewestBuilt

\* C24, amended: latest names the image pushed last. Among the runs of one
\* ref that is never the image of an older commit than one whose build
\* succeeded, because a newer run cancels the run in progress of its ref,
\* and when all runs are of one ref latest names the most recently
\* triggered commit whose build succeeded; runs of different refs (main and
\* master) overlap, and the last of them to push sets latest.
C24_LatestIsLastPushed ==
    /\ [](/\ registry.latest \in registry.sha
          /\ \A i, j \in 1..Len(runs) :
                (runs[i].ref = runs[j].ref /\ i < j /\ j \in registry.sha)
                => registry.latest # i
          /\ (\A i, j \in 1..Len(runs) : runs[i].ref = runs[j].ref)
                => registry.latest = NewestBuilt)
    /\ [][registry'.latest # registry.latest
          => /\ registry'.latest \in 1..Len(runs)
             /\ runs[registry'.latest].status = "in_progress"
             /\ runs[registry'.latest].steps = 0
             /\ registry'.sha = registry.sha \cup {registry'.latest}]_vars

\* Three runs of main: the first pushed and was cancelled by the second,
\* whose build failed; the third pushed and completed, and latest is its
\* image.
C24_Witness ==
    /\ Len(runs) = 3
    /\ \A i \in 1..3 : runs[i].ref = "refs/heads/main"
    /\ runs[1].status = "cancelled" /\ 1 \in registry.sha
    /\ runs[2].status = "failed"
    /\ runs[3].status = "completed"
    /\ registry.latest = 3
----------------------------------------------------------------------------
(* Whether a version tag keeps naming the same image: C25 *)

\* C25 as the specification states it: a version tag in the registry names
\* the same image ever after.
C25_VersionTagsImmutable ==
    [][\A e \in registry.ver : e \in registry'.ver]_vars

\* C25, amended: a version tag names one image; no staging run, push to
\* main or release changes which image a version tag names; the tag of a
\* release is moved only by the promote-image job of that release run
\* again after a re-run, and then to the image latest names at that time.
C25_VersionTagsMoveOnlyByRerun ==
    /\ [](\A e, f \in registry.ver : e[1] = f[1] => e = f)
    /\ [][/\ \A e \in registry.ver :
               e \notin registry'.ver
               => \E i \in 1..Len(prod) :
                     /\ releases[i].tag = e[1]
                     /\ prod[i]["promote-image"] = "queued"
                     /\ prod'[i]["promote-image"] # "queued"
                     /\ <<e[1], registry.latest>> \in registry'.ver
                     /\ reruns >= 1
          /\ (stagingRun' # stagingRun \/ main' # main
                 \/ releases' # releases)
               => registry'.ver = registry.ver]_vars

\* A release was promoted, a later staging build moved latest, and the
\* version tag still names the image it was given.
C25_Witness ==
    \E i \in 1..Len(prod) :
        /\ prod[i]["promote-image"] = "success"
        /\ reruns = 0
        /\ \E e \in registry.ver :
              e[1] = releases[i].tag /\ e[2] < registry.latest
----------------------------------------------------------------------------
(* The order of the released versions: C26 *)

\* Semantic-version order.
SemverLess(a, b) ==
    \/ a[1] < b[1]
    \/ a[1] = b[1] /\ a[2] < b[2]
    \/ a[1] = b[1] /\ a[2] = b[2] /\ a[3] < b[3]

\* The versions published, oldest first, after CHANGELOG.md's first.
PublishedVersions ==
    <<InitialVersion>> \o [i \in 1..Len(releases) |-> releases[i].tag]

\* C26: each published version is greater in semantic-version order than
\* the one before it; a version with a higher minor component has patch 0
\* and one with a higher major component has minor and patch 0; and no
\* version is published twice.
C26_VersionsIncrease ==
    LET pv == PublishedVersions
    IN  /\ \A i \in 1..(Len(pv) - 1) :
              /\ SemverLess(pv[i], pv[i + 1])
              /\ pv[i + 1][1] > pv[i][1]
                    => pv[i + 1][2] = 0 /\ pv[i + 1][3] = 0
              /\ (pv[i + 1][1] = pv[i][1] /\ pv[i + 1][2] > pv[i][2])
                    => pv[i + 1][3] = 0
        /\ \A i, j \in 1..Len(pv) : i # j => pv[i] # pv[j]

\* Three releases after 1.0.0: 1.1.0, 2.0.0 and 2.0.1.
C26_Witness ==
    /\ Len(releases) = 3
    /\ releases[1].tag = <<1, 1, 0>>
    /\ releases[2].tag = <<2, 0, 0>>
    /\ releases[3].tag = <<2, 0, 1>>
====
